---- MODULE Spec2Model ----
(***************************************************************************)
(* Model of xml_organizer.py: the per-file pipeline                        *)
(* process_single_file_with_retry / atomic_process_file, run concurrently  *)
(* by the workers of a batch, the reconciler reconcile_processing_queue,   *)
(* and a process crash followed by a restart (load_caches).                *)
(*                                                                         *)
(* A file is a number; its bytes are one of Contents.  A quarantine name   *)
(* is <<f, g>>: file f after its g-th move into quarantine (the timestamp  *)
(* prefix added by move_to_quarantine); <<f, 0>> is the name in the inbox. *)
(***************************************************************************)
EXTENDS Integers, Sequences, FiniteSets, TLC

\* ------------------------------------------------------------------ bounds
NumFiles == 2
MaxFaults == 1
MaxReconciles == 1
MaxCrashes == 1
MaxInbox == 55          \* files one scan of the inbox can find
MaxClock == 3           \* ticks of the clock while files are quarantined

\* ------------------------------------------------------- program constants
MAX_RETRY_ATTEMPTS == 5
RETRY_DELAY_BASE == 2
MAX_WORKERS == 4
BATCH_SIZE == 50

Files == 1..NumFiles

\* Tax IDs, and issuer names as the XML spells them, character by character.
Cnpjs == {"11", "22"}
RawNames ==
    { << "a", "b" >>, << "A", "B" >>, << "a", ".", "b" >>, << "a", "-", "c" >>,
      << "a", " ", "c" >>, << " ", "a", " ", " ", "c", " " >>, << "a", " ", "/", " ", "c" >> }
NoCall == [cnpj |-> "None", nome_xml |-> << >>]
\* nome_empresa_final of a worker that has not reached line 684.
NoName == << "None" >>

\* Lines 515-516, 532-533, 545-546, 571-572: get_xml_info returns a record
\* unless one of these is missing; a missing Id attribute gives the access
\* key '' (line 518).
Returned(lacks) == lacks \notin {"infNFe", "ide", "emit", "dhEmi", "CNPJ", "xNome"}

\* The bytes a file can hold: the parsed access key, whether get_xml_info
\* returns a record, and the part of the document that is missing.  b1 and b2
\* carry the same access key in different bytes.
Contents ==
    { [bytes |-> "b1", key |-> "K1", valid |-> TRUE,  lacks |-> "None"],
      [bytes |-> "b2", key |-> "K1", valid |-> TRUE,  lacks |-> "None"],
      [bytes |-> "b3", key |-> "K2", valid |-> TRUE,  lacks |-> "None"],
      [bytes |-> "b4", key |-> "",   valid |-> FALSE, lacks |-> "infNFe"] }

\* The required fields: access key, issuer tax ID, issuer name, emission date.
RequiredFields == {"Id", "CNPJ", "xNome", "dhEmi"}

\* Documents that lack exactly one required field.
Incomplete ==
    { [bytes |-> "b5", key |-> "",   valid |-> Returned("Id"),    lacks |-> "Id"],
      [bytes |-> "b6", key |-> "K3", valid |-> Returned("CNPJ"),  lacks |-> "CNPJ"],
      [bytes |-> "b7", key |-> "K3", valid |-> Returned("xNome"), lacks |-> "xNome"],
      [bytes |-> "b8", key |-> "K3", valid |-> Returned("dhEmi"), lacks |-> "dhEmi"] }

Rank(c) ==
    CASE c.bytes = "b1" -> 1 [] c.bytes = "b2" -> 2 [] c.bytes = "b3" -> 3 [] OTHER -> 4

Intermediate == {"PENDING", "QUARANTINED", "PROCESSING", "PARSED", "DB_INSERTED"}
Terminal == {"SUCCESS", "DUPLICATE", "FAILED_PERMANENT"}

None == "None"
\* audit_id of a pipeline whose create_processing_record returned None.
NoAuditId == 0 - 1
NoPath == [dir |-> None, name |-> << 0, 0 >>]

VARIABLES
    content,            \* [Files -> Contents]: the bytes of each file (never change)
    archive_rejects,    \* the archive root rejects writes (every mkdir fails)
    where,              \* [Files -> directory the file is in, or "deleted"]
    gen,                \* [Files -> number of moves into quarantine so far]
    archive,            \* set of destination paths that exist under the archive root
    nota_fiscal,        \* set of Document rows
    processing_audit,   \* sequence of ProcessingAudit rows; audit_id = index
    processed_hashes,
    processed_keys,
    pc,                 \* [Files -> position of the thread running the file's pipeline]
    attempt,            \* [Files -> loop variable of process_single_file_with_retry]
    audit_id,           \* [Files -> audit row of the running pipeline]
    ret,                \* [Files -> value returned by atomic_process_file]
    delays,             \* [Files -> seconds slept by the pipeline, in order]
    phase,              \* "scan" | "reconcile": what the orchestrator thread runs
    todo,               \* quarantine_files still to visit in the reconciliation run
    issues_fixed,       \* issues_fixed of the current (or last logged) reconciliation run
    faults,             \* induced failures so far, in order: << kind, file >>
    reconciles,         \* reconciliation runs so far
    crashes,            \* crashes so far
    crashed_mid,        \* files whose insert was committed and not yet moved at a crash
    db_lock,            \* holder of db_lock (a worker), or 0
    wsite,              \* [Files -> the catalog write the worker performs next]
    writing,            \* [Files -> the worker is between connect and commit/close]
    orch_pc,            \* position of the orchestrator thread in main()
    scan_left,          \* files of xml_files not yet handed to process_batch
    batch_num,          \* batch_num of scan_and_process
    queued,             \* futures of the executor whose work item has not started
    running,            \* work items in flight on the executor's threads
    caches_off,         \* every lookup in processed_hashes / processed_keys misses
    audit_fail,         \* [Files -> the audit operation that fails for the file, or None]
    empresa,            \* the Issuer table: set of rows [cnpj, id, nome]
    company_cache,      \* company_cache: set of entries [cnpj, id, nome]
    cache_lock,         \* holder of cache_lock (a worker), or 0
    gpc,                \* [Files -> position of the worker in get_or_create_company]
    garg,               \* [Files -> the arguments [cnpj, nome_xml] of the worker's call]
    returned,           \* [Cnpjs -> the issuer ids returned so far for the tax ID]
    nome_final,         \* [Files -> nome_empresa_final read by the worker, or NoName]
    audit_events,       \* events written to the audit log: << event, file >>
    now,                \* the reading datetime.now() gives at this moment
    src_name,           \* [Files -> the name the file has in the inbox]
    stamp,              \* [Files -> the timestamp move_to_quarantine has read]
    qpc,                \* [Files -> position of the worker in move_to_quarantine]
    qdir                \* the quarantine directory: set of [path, file]

vars == << content, archive_rejects, where, gen, archive, nota_fiscal, processing_audit,
           processed_hashes, processed_keys, pc, attempt, audit_id, ret, delays,
           phase, todo, issues_fixed, faults, reconciles, crashes, crashed_mid,
           db_lock, wsite, writing, orch_pc, scan_left, batch_num, queued, running,
           caches_off, audit_fail, empresa, company_cache, cache_lock, gpc, garg,
           returned, nome_final, audit_events, now, src_name, stamp, qpc, qdir >>

fs == << where, gen, archive >>
caches == << processed_hashes, processed_keys >>
\* The lock-level view of the catalog writes, which the pipeline actions above
\* the level of one write leave alone.
lockv == << db_lock, wsite, writing >>
\* The executor-level view of main(), scan_and_process and process_batch.
batchv == << orch_pc, scan_left, batch_num, queued, running >>
\* The issuer table and its cache, written by get_or_create_company only.
issuerv == << empresa, company_cache, cache_lock, gpc, garg, returned, nome_final >>
\* move_to_quarantine seen at the level of the clock and of the directory entries.
quarv == << now, src_name, stamp, qpc, qdir >>
\* What no step of the pipeline writes, but for the audit log.
quiet == << content, archive_rejects, lockv, batchv, caches_off, audit_fail, issuerv, quarv >>
env == << quiet, audit_events >>
orch == << phase, todo, reconciles, issues_fixed >>
crashv == << crashes, crashed_mid >>

\* Everything the pipeline, the reconciler and the restart read or write.
silent == << quarv, caches_off, audit_fail, content, archive_rejects, where, gen, archive,
             nota_fiscal, processing_audit, processed_hashes, processed_keys, pc, attempt,
             audit_id, ret, delays, phase, todo, issues_fixed, faults, reconciles, crashes,
             crashed_mid >>
filev == << silent, audit_events >>
pipev == << filev, issuerv >>

\* ---------------------------------------------------------------- helpers
calculate_file_hash(f) == content[f].bytes

\* get_xml_info: the extracted record, or None (ok = FALSE) when a required
\* element is missing or the XML does not parse.
get_xml_info(f) ==
    IF content[f].valid THEN [ok |-> TRUE, chave_acesso |-> content[f].key]
                        ELSE [ok |-> FALSE, chave_acesso |-> None]

QName(f) == << f, gen[f] >>

\* The issuer/kind/date directories come from the bytes; the last component is
\* the name of the quarantine file.
DestinationPath(f) == [dir |-> content[f].key, name |-> QName(f)]

RECURSIVE Pow(_, _)
Pow(b, n) == IF n = 0 THEN 1 ELSE b * Pow(b, n - 1)

Ret(ok, kind) == [success |-> ok, error_type |-> kind]

AllIdle == \A g \in Files : pc[g] = "idle"

\* Lines 371-372, 419-420: "except Exception as e: logger.error(...)": an audit
\* operation that raises inside leaves processing_audit as it was.
Audited(f, op, new) == IF audit_fail[f] = op THEN processing_audit ELSE new

Status(f, new) == Audited(f, "update_processing_status", new)

\* An update_processing_status whose UPDATE never reaches the table.
SetStatusLost(id, st) == processing_audit

\* update_processing_status: sets current_status and the given columns.
SetStatus(id, st) ==
    [processing_audit EXCEPT ![id].current_status = st]

SetStatusKey(id, st, key) ==
    [processing_audit EXCEPT ![id].current_status = st, ![id].chave_acesso = key]

NewAuditRow(f) ==
    [ fname             |-> QName(f),
      file_hash         |-> calculate_file_hash(f),
      current_status    |-> "PENDING",
      attempt_count     |-> 0,
      last_error_type   |-> None,
      final_destination |-> NoPath,
      chave_acesso      |-> None,
      completed_at      |-> 0,
      attempts          |-> << >> ]

\* A startup load that takes the keys from the audit trail.
LoadedKeysFromAudit ==
    { processing_audit[i].chave_acesso : i \in 1..Len(processing_audit) } \ {None}

\* Lines 601-604: SELECT hash_arquivo, chave_acesso FROM nota_fiscal.
LoadedHashes == { r.hash_arquivo : r \in nota_fiscal }
LoadedKeys == { r.chave_acesso : r \in nota_fiscal }

\* ------------------------------------------------------------------- Init
\* No worker has started a catalog write.
InitLockView ==
    /\ db_lock = 0
    /\ wsite = [f \in Files |-> "create"]
    /\ writing = [f \in Files |-> FALSE]

\* main() is about to scan for the first time.
InitBatchView ==
    /\ orch_pc = "sleep"
    /\ scan_left = 0
    /\ batch_num = 0
    /\ queued = 0
    /\ running = 0

\* Lines 155-159: company_cache = {}, cache_lock = Lock(); an empty catalog.
InitIssuerView ==
    /\ empresa = {}
    /\ company_cache = {}
    /\ cache_lock = 0
    /\ gpc = [f \in Files |-> "out"]
    /\ garg = [f \in Files |-> NoCall]
    /\ returned = [c \in Cnpjs |-> {}]
    /\ nome_final = [f \in Files |-> NoName]

\* Every file lies in the inbox under the same name (in different
\* subdirectories); no worker is inside move_to_quarantine.
InitQuarantineView ==
    /\ now = 0
    /\ src_name = [f \in Files |-> "nota.xml"]
    /\ stamp = [f \in Files |-> 0]
    /\ qpc = [f \in Files |-> "source"]
    /\ qdir = {}

\* Lines 1119-1121 on an empty installation: every file in the inbox, empty
\* catalog and caches, no pipeline running.
InitPipeline ==
    /\ InitLockView
    /\ InitBatchView
    /\ InitIssuerView
    /\ InitQuarantineView
    /\ audit_events = {}
    /\ where = [f \in Files |-> "inbox"]
    /\ gen = [f \in Files |-> 0]
    /\ archive = {}
    /\ nota_fiscal = {}
    /\ processing_audit = << >>
    /\ processed_hashes = {}
    /\ processed_keys = {}
    /\ pc = [f \in Files |-> "idle"]
    /\ attempt = [f \in Files |-> 0]
    /\ audit_id = [f \in Files |-> 0]
    /\ ret = [f \in Files |-> Ret(FALSE, None)]
    /\ delays = [f \in Files |-> << >>]
    /\ phase = "scan"
    /\ todo = {}
    /\ issues_fixed = 0
    /\ faults = << >>
    /\ reconciles = 0
    /\ crashes = 0
    /\ crashed_mid = {}

InitProgram ==
    /\ InitPipeline
    /\ content \in { c \in [Files -> Contents] :
                        \A f \in Files, g \in Files : f < g => Rank(c[f]) <= Rank(c[g]) }
    /\ archive_rejects \in BOOLEAN

\* The catalog accepts every audit write.
NoAuditFailure == [f \in Files |-> None]

Init == InitProgram /\ caches_off = FALSE /\ audit_fail = NoAuditFailure

\* ------------------------------------------- process_single_file_with_retry
\* Lines 822-835: hash of the source, create_processing_record.
StartPipeline(f) ==
    /\ attempt' = [attempt EXCEPT ![f] = 0]
    /\ delays' = [delays EXCEPT ![f] = << >>]
    /\ ret' = [ret EXCEPT ![f] = Ret(FALSE, None)]
    /\ IF audit_fail[f] = "create_processing_record"
          THEN \* lines 337-339 and 830-833: None is returned, the pipeline returns
               /\ audit_id' = [audit_id EXCEPT ![f] = NoAuditId]
               /\ UNCHANGED << processing_audit, pc >>
          ELSE /\ processing_audit' = Append(processing_audit, NewAuditRow(f))
               /\ audit_id' = [audit_id EXCEPT ![f] = Len(processing_audit) + 1]
               /\ pc' = [pc EXCEPT ![f] = "quarantine"]

\* An audit log that drops the event.
audit_log_dropped(event, f) == audit_events

\* Lines 295-302: audit_log(event, details) writes one line to the audit log.
audit_log(event, f) == audit_events \cup {<< event, f >>}

\* A worker of process_batch picks a file of the inbox.
CreateRecord(f) ==
    /\ phase = "scan"
    /\ pc[f] = "idle"
    /\ where[f] = "inbox"
    /\ StartPipeline(f)
    /\ UNCHANGED << env, fs, nota_fiscal, caches, orch, faults, crashv >>

\* Lines 617-640 and 837-845: move_to_quarantine moves the file under a new
\* timestamped name and logs FILE_QUARANTINED, then QUARANTINED; or the move
\* raises, QUARANTINE_FAILED is logged, None is returned, then FAILED_PERMANENT.
MoveToQuarantine(f) ==
    /\ pc[f] = "quarantine"
    /\ \/ /\ gen' = [gen EXCEPT ![f] = @ + 1]
          /\ where' = [where EXCEPT ![f] = "quarantine"]
          /\ audit_events' = audit_log("FILE_QUARANTINED", f)
          /\ processing_audit' = Status(f, SetStatus(audit_id[f], "QUARANTINED"))
          /\ pc' = [pc EXCEPT ![f] = "begin"]
          /\ UNCHANGED faults
       \/ /\ Len(faults) < MaxFaults
          /\ faults' = Append(faults, << "quarantine", f >>)
          /\ audit_events' = audit_log("QUARANTINE_FAILED", f)
          /\ processing_audit' =
                Status(f, [processing_audit EXCEPT
                              ![audit_id[f]].current_status = "FAILED_PERMANENT",
                              ![audit_id[f]].last_error_type = "FILE_PERMISSION_ERROR"])
          /\ pc' = [pc EXCEPT ![f] = "idle"]
          /\ UNCHANGED << gen, where >>
    /\ UNCHANGED << quiet, archive, nota_fiscal, caches, attempt, audit_id, ret, delays,
                    orch, crashv >>

\* Lines 848-853: next iteration of the retry loop, status PROCESSING.
BeginAttempt(f) ==
    /\ pc[f] = "begin"
    /\ attempt' = [attempt EXCEPT ![f] = @ + 1]
    /\ processing_audit' = Status(f, SetStatus(audit_id[f], "PROCESSING"))
    /\ pc' = [pc EXCEPT ![f] = "hash"]
    /\ UNCHANGED << env, fs, nota_fiscal, caches, audit_id, ret, delays, orch, faults,
                    crashv >>

\* ------------------------------------------------------ atomic_process_file
\* Lines 662 and 675: "file_hash in processed_hashes", "chave_acesso in
\* processed_keys"; with the caches switched off every lookup misses.
Lookup(x, cache) == ~caches_off /\ x \in cache

\* Lines 656-665: hash of the quarantine file, duplicate by hash.
CheckHash(f) ==
    /\ pc[f] = "hash"
    /\ IF Lookup(calculate_file_hash(f), processed_hashes)
          THEN /\ processing_audit' = Status(f, SetStatus(audit_id[f], "DUPLICATE"))
               /\ pc' = [pc EXCEPT ![f] = "unlink"]
          ELSE /\ pc' = [pc EXCEPT ![f] = "parse"]
               /\ UNCHANGED processing_audit
    /\ UNCHANGED << env, fs, nota_fiscal, caches, attempt, audit_id, ret, delays, orch,
                    faults, crashv >>

\* Lines 667-680: get_xml_info, duplicate by key, PARSED.
Parse(f) ==
    /\ pc[f] = "parse"
    /\ LET info == get_xml_info(f) IN
       IF ~info.ok
          THEN /\ ret' = [ret EXCEPT ![f] = Ret(FALSE, "XML_INVALID_STRUCTURE")]
               /\ pc' = [pc EXCEPT ![f] = "record"]
               /\ UNCHANGED processing_audit
          ELSE IF Lookup(info.chave_acesso, processed_keys)
          THEN /\ processing_audit' =
                    Status(f, SetStatusKey(audit_id[f], "DUPLICATE", info.chave_acesso))
               /\ pc' = [pc EXCEPT ![f] = "unlink"]
               /\ UNCHANGED ret
          ELSE /\ processing_audit' =
                    Status(f, SetStatusKey(audit_id[f], "PARSED", info.chave_acesso))
               /\ pc' = [pc EXCEPT ![f] = "insert"]
               /\ UNCHANGED ret
    /\ UNCHANGED << env, fs, nota_fiscal, caches, attempt, audit_id, delays, orch,
                    faults, crashv >>

\* A uniqueness check that forgets the UNIQUE constraint on chave_acesso.
IntegrityErrorHashOnly(row) ==
    \E r \in nota_fiscal : r.hash_arquivo = row.hash_arquivo

\* The UNIQUE constraints of nota_fiscal (lines 189-190).
\* A nota_fiscal table created without its UNIQUE constraints.
NoIntegrityError(row) == FALSE

IntegrityError(row) ==
    \E r \in nota_fiscal :
        r.chave_acesso = row.chave_acesso \/ r.hash_arquivo = row.hash_arquivo

NewDocument(f) ==
    [ chave_acesso    |-> content[f].key,
      hash_arquivo    |-> calculate_file_hash(f),
      caminho_arquivo |-> DestinationPath(f) ]

\* Lines 739-741: except Exception: rollback, return (False, ..., DB_CONNECTION_ERROR).
InsertFailure == Ret(FALSE, "DB_CONNECTION_ERROR")

\* Lines 687-745: destination exists -> DUPLICATE; INSERT and commit ->
\* DB_INSERTED; IntegrityError -> DUPLICATE; any other error -> failed attempt.
InsertDocument(f) ==
    /\ pc[f] = "insert"
    /\ IF DestinationPath(f) \in archive
          THEN /\ processing_audit' = Status(f, SetStatus(audit_id[f], "DUPLICATE"))
               /\ pc' = [pc EXCEPT ![f] = "unlink"]
               /\ UNCHANGED << nota_fiscal, ret, faults >>
          ELSE \/ /\ IntegrityError(NewDocument(f))
                  /\ processing_audit' = Status(f, SetStatus(audit_id[f], "DUPLICATE"))
                  /\ pc' = [pc EXCEPT ![f] = "unlink"]
                  /\ UNCHANGED << nota_fiscal, ret, faults >>
               \/ /\ ~IntegrityError(NewDocument(f))
                  /\ nota_fiscal' = nota_fiscal \cup {NewDocument(f)}
                  /\ processing_audit' = Status(f, SetStatus(audit_id[f], "DB_INSERTED"))
                  /\ pc' = [pc EXCEPT ![f] = "move"]
                  /\ UNCHANGED << ret, faults >>
               \/ /\ Len(faults) < MaxFaults
                  /\ faults' = Append(faults, << "insert", f >>)
                  /\ ret' = [ret EXCEPT ![f] = InsertFailure]
                  /\ pc' = [pc EXCEPT ![f] = "record"]
                  /\ UNCHANGED << nota_fiscal, processing_audit >>
    /\ UNCHANGED << env, fs, caches, attempt, audit_id, delays, orch, crashv >>

\* Lines 747-756: mkdir -p and shutil.move, then FILE_MOVED.  shutil.move
\* between volumes copies and then unlinks the source: a failed move leaves
\* either nothing or a file at the destination, and the source in place.
MoveFile(f) ==
    /\ pc[f] = "move"
    /\ \/ /\ ~archive_rejects
          /\ archive' = archive \cup {DestinationPath(f)}
          /\ where' = [where EXCEPT ![f] = "archive"]
          /\ processing_audit' =
                Status(f, [processing_audit EXCEPT
                              ![audit_id[f]].current_status = "FILE_MOVED",
                              ![audit_id[f]].final_destination = DestinationPath(f)])
          /\ pc' = [pc EXCEPT ![f] = "finish"]
          /\ UNCHANGED faults
       \/ /\ archive_rejects
          /\ pc' = [pc EXCEPT ![f] = "rollback"]
          /\ UNCHANGED << archive, where, processing_audit, faults >>
       \/ /\ ~archive_rejects
          /\ Len(faults) < MaxFaults
          /\ \/ /\ faults' = Append(faults, << "move", f >>)
                /\ archive' = archive
             \/ /\ faults' = Append(faults, << "copy", f >>)
                /\ archive' = archive \cup {DestinationPath(f)}
          /\ pc' = [pc EXCEPT ![f] = "rollback"]
          /\ UNCHANGED << where, processing_audit >>
    /\ UNCHANGED << env, gen, nota_fiscal, caches, attempt, audit_id, ret, delays, orch,
                    crashv >>

\* A rollback whose DELETE has lost its WHERE clause.
RollbackDeletesAll(f) == {}

\* Line 765: DELETE FROM nota_fiscal WHERE chave_acesso = ?
RollbackDelete(f) == { r \in nota_fiscal : r.chave_acesso # content[f].key }

\* Lines 758-772: DELETE FROM nota_fiscal WHERE chave_acesso = ?, or the DELETE
\* raises (logged as critical and swallowed); return failure either way.
Rollback(f) ==
    /\ pc[f] = "rollback"
    /\ \/ /\ nota_fiscal' = RollbackDelete(f)
          /\ UNCHANGED faults
       \/ /\ Len(faults) < MaxFaults
          /\ faults' = Append(faults, << "rollback", f >>)
          /\ UNCHANGED nota_fiscal
    /\ ret' = [ret EXCEPT ![f] = Ret(FALSE, "FILE_PERMISSION_ERROR")]
    /\ pc' = [pc EXCEPT ![f] = "record"]
    /\ UNCHANGED << env, fs, processing_audit, caches, attempt, audit_id, delays, orch,
                    crashv >>

\* Lines 774-796: caches, SUCCESS, return (True, None, None).
Finish(f) ==
    /\ pc[f] = "finish"
    /\ processed_hashes' = processed_hashes \cup {calculate_file_hash(f)}
    /\ processed_keys' = processed_keys \cup {content[f].key}
    /\ processing_audit' =
          Status(f, [processing_audit EXCEPT
                        ![audit_id[f]].current_status = "SUCCESS",
                        ![audit_id[f]].final_destination = DestinationPath(f),
                        ![audit_id[f]].completed_at = Len(processing_audit)])
    /\ ret' = [ret EXCEPT ![f] = Ret(TRUE, None)]
    /\ pc' = [pc EXCEPT ![f] = "record"]
    /\ UNCHANGED << env, fs, nota_fiscal, attempt, audit_id, delays, orch, faults,
                    crashv >>

\* A duplicate whose quarantine file is left where it is.
UnlinkSkipped(f) == where

\* Lines 664, 677, 703, 736: quarantine_file.unlink().
unlink(f) == [where EXCEPT ![f] = "deleted"]

\* Lines 664, 677, 703, 736: quarantine_file.unlink(), return (True, ..., None);
\* lines 798-802: an unlink that raises is caught by the outer handler, which
\* returns (False, ..., UNKNOWN_ERROR) with the file still in quarantine.
Unlink(f) ==
    /\ pc[f] = "unlink"
    /\ \/ /\ where' = unlink(f)
          /\ ret' = [ret EXCEPT ![f] = Ret(TRUE, None)]
          /\ UNCHANGED faults
       \/ /\ Len(faults) < MaxFaults
          /\ faults' = Append(faults, << "unlink", f >>)
          /\ ret' = [ret EXCEPT ![f] = Ret(FALSE, "UNKNOWN_ERROR")]
          /\ UNCHANGED where
    /\ pc' = [pc EXCEPT ![f] = "record"]
    /\ UNCHANGED << env, gen, archive, nota_fiscal, processing_audit, caches, attempt,
                    audit_id, delays, orch, crashv >>

\* ------------------------------------- process_single_file_with_retry, tail
\* An attempt row that numbers the attempts from zero.
AttemptRowFromZero(f) ==
    [ attempt_number |-> attempt[f] - 1,
      status         |-> IF ret[f].success THEN "SUCCESS" ELSE "FAILED_MOVE",
      error_type     |-> ret[f].error_type ]

\* Lines 858-860 and 389-401: the processing_attempts row of this attempt; the
\* status is SUCCESS when the attempt returned success and FAILED_MOVE otherwise.
AttemptRow(f) ==
    [ attempt_number |-> attempt[f],
      status         |-> IF ret[f].success THEN "SUCCESS" ELSE "FAILED_MOVE",
      error_type     |-> ret[f].error_type ]

\* A reconciler that never counts what it recovers.
CountFixedNever(f) == issues_fixed

\* Lines 1013-1015: if result["status"] == "sucesso": issues_fixed += 1
CountFixed(f) ==
    IF phase = "reconcile" /\ ret[f].success THEN issues_fixed + 1 ELSE issues_fixed

\* Lines 857-872: record_attempt (attempt_count + 1), then return on success,
\* back off when attempts remain, dead letter otherwise.  Lines 1013-1015: a
\* pipeline that returns "sucesso" to the reconciler is counted as fixed.
RecordAttempt(f) ==
    /\ pc[f] = "record"
    /\ processing_audit' =
          Audited(f, "record_attempt",
                  [processing_audit EXCEPT
                      ![audit_id[f]].attempt_count = @ + 1,
                      ![audit_id[f]].attempts = Append(@, AttemptRow(f))])
    /\ pc' = [pc EXCEPT ![f] =
                 IF ret[f].success THEN "idle"
                 ELSE IF attempt[f] < MAX_RETRY_ATTEMPTS THEN "sleep"
                 ELSE "dead"]
    /\ issues_fixed' = CountFixed(f)
    /\ UNCHANGED << env, fs, nota_fiscal, caches, attempt, audit_id, ret, delays, phase,
                    todo, reconciles, faults, crashv >>

\* A backoff that counts the attempts from zero.
RetryDelayFromZero(f) == Pow(RETRY_DELAY_BASE, attempt[f] - 1)

\* Line 869: delay = RETRY_DELAY_BASE ** attempt
RetryDelay(f) == Pow(RETRY_DELAY_BASE, attempt[f])

\* Lines 868-871: time.sleep(delay) when attempts remain.
Sleep(f) ==
    /\ pc[f] = "sleep"
    /\ delays' = [delays EXCEPT ![f] = Append(@, RetryDelay(f))]
    /\ pc' = [pc EXCEPT ![f] = "begin"]
    /\ UNCHANGED << env, fs, nota_fiscal, processing_audit, caches, attempt, audit_id,
                    ret, orch, faults, crashv >>

DeadLetterPath(f) == [dir |-> "dead_letter", name |-> QName(f)]

\* Lines 880-883: update_processing_status(FAILED_PERMANENT, error_type,
\* error_message, final_destination).
DeadLetterAudit(f) ==
    [processing_audit EXCEPT
        ![audit_id[f]].current_status = "FAILED_PERMANENT",
        ![audit_id[f]].last_error_type = ret[f].error_type,
        ![audit_id[f]].final_destination = DeadLetterPath(f)]

\* Lines 873-894: move to the dead-letter directory, then FAILED_PERMANENT; a
\* failure of the move is logged and the pipeline returns.
DeadLetter(f) ==
    /\ pc[f] = "dead"
    /\ \/ /\ where' = [where EXCEPT ![f] = "dead_letter"]
          /\ processing_audit' = Status(f, DeadLetterAudit(f))
          /\ UNCHANGED faults
       \/ /\ Len(faults) < MaxFaults
          /\ faults' = Append(faults, << "dead_letter", f >>)
          /\ UNCHANGED << where, processing_audit >>
    /\ pc' = [pc EXCEPT ![f] = "idle"]
    /\ UNCHANGED << env, gen, archive, nota_fiscal, caches, attempt, audit_id, ret,
                    delays, orch, crashv >>

\* ---------------------------------------------- reconcile_processing_queue
\* Lines 1137-1147 and 998-1002: between two scans, with no worker in flight,
\* the orchestrator lists the quarantine; todo holds the files older than 300 s.
ReconcileBegin ==
    /\ phase = "scan"
    /\ AllIdle
    /\ reconciles < MaxReconciles
    /\ reconciles' = reconciles + 1
    /\ phase' = "reconcile"
    /\ issues_fixed' = 0
    /\ \E old \in SUBSET { f \in Files : where[f] = "quarantine" } : todo' = old
    /\ UNCHANGED << env, fs, nota_fiscal, processing_audit, caches, pc, attempt,
                    audit_id, ret, delays, faults, crashv >>

\* Lines 1003-1017: the whole pipeline again on a stale quarantine file.
ReconcileFile(f) ==
    /\ phase = "reconcile"
    /\ f \in todo
    /\ AllIdle
    /\ StartPipeline(f)
    /\ todo' = todo \ {f}
    /\ UNCHANGED << env, fs, nota_fiscal, caches, phase, reconciles, issues_fixed, faults,
                    crashv >>

\* Line 1051: (directory / filename).exists(); nothing is ever written to the
\* processing and failed directories.
FoundInStaging(fname) == \E g \in Files : where[g] = "quarantine" /\ QName(g) = fname

\* Lines 1031-1036: intermediate status and a last attempt older than 10 minutes
\* (last_attempt_at is NULL until the first record_attempt).
StuckCandidates ==
    { i \in 1..Len(processing_audit) :
        /\ processing_audit[i].current_status \in Intermediate
        /\ processing_audit[i].attempt_count > 0 }

\* Lines 1019-1101: stuck audit rows whose file is found nowhere become
\* FAILED_PERMANENT; the run is logged and the orchestrator scans again.
ReconcileFinish ==
    /\ phase = "reconcile"
    /\ todo = {}
    /\ AllIdle
    /\ \E stuck \in SUBSET StuckCandidates :
          processing_audit' =
             [i \in 1..Len(processing_audit) |->
                 IF i \in stuck /\ ~FoundInStaging(processing_audit[i].fname)
                    THEN [processing_audit[i] EXCEPT !.current_status = "FAILED_PERMANENT"]
                    ELSE processing_audit[i]]
    /\ phase' = "scan"
    /\ UNCHANGED << env, fs, nota_fiscal, caches, pc, attempt, audit_id, ret, delays,
                    todo, reconciles, issues_fixed, faults, crashv >>

\* --------------------------------------------------------- crash and restart
\* The process dies with pipelines in flight; main() starts again: lines
\* 1119-1121, load_caches refills the idempotency caches from nota_fiscal.
CrashRestart ==
    /\ crashes < MaxCrashes
    /\ ~AllIdle
    /\ crashes' = crashes + 1
    /\ crashed_mid' = crashed_mid \cup { f \in Files : pc[f] = "move" }
    /\ pc' = [f \in Files |-> "idle"]
    /\ attempt' = [f \in Files |-> 0]
    /\ audit_id' = [f \in Files |-> 0]
    /\ ret' = [f \in Files |-> Ret(FALSE, None)]
    /\ delays' = [f \in Files |-> << >>]
    /\ phase' = "scan"
    /\ todo' = {}
    /\ issues_fixed' = 0
    /\ processed_hashes' = LoadedHashes
    /\ processed_keys' = LoadedKeys
    /\ UNCHANGED << env, fs, nota_fiscal, processing_audit, reconciles, faults >>

\* ------------------------------------------------------------ specifications
Step(f) ==
    \/ CreateRecord(f)
    \/ MoveToQuarantine(f)
    \/ BeginAttempt(f)
    \/ CheckHash(f)
    \/ Parse(f)
    \/ InsertDocument(f)
    \/ MoveFile(f)
    \/ Rollback(f)
    \/ Finish(f)
    \/ Unlink(f)
    \/ RecordAttempt(f)
    \/ Sleep(f)
    \/ DeadLetter(f)
    \/ ReconcileFile(f)

Next == (\E f \in Files : Step(f)) \/ ReconcileBegin \/ ReconcileFinish

Spec == Init /\ [][Next]_vars

NextCrash == Next \/ CrashRestart

InitCrash == Init /\ ~archive_rejects

SpecCrash == InitCrash /\ [][NextCrash]_vars

\* Lines 998-1002: the reconciler takes whatever *.xml it finds in the
\* quarantine directory.  Here file 1 lies in quarantine at startup with no
\* audit row (left there by hand or by an earlier installation).
InitOrphan ==
    /\ InitIssuerView
    /\ InitQuarantineView
    /\ audit_events = {}
    /\ caches_off = FALSE
    /\ audit_fail = NoAuditFailure
    /\ InitLockView
    /\ InitBatchView
    /\ content \in { c \in [Files -> Contents] :
                        \A f \in Files, g \in Files : f < g => Rank(c[f]) <= Rank(c[g]) }
    /\ archive_rejects = FALSE
    /\ where = [f \in Files |-> IF f = 1 THEN "quarantine" ELSE "inbox"]
    /\ gen = [f \in Files |-> IF f = 1 THEN 1 ELSE 0]
    /\ archive = {}
    /\ nota_fiscal = {}
    /\ processing_audit = << >>
    /\ processed_hashes = {}
    /\ processed_keys = {}
    /\ pc = [f \in Files |-> "idle"]
    /\ attempt = [f \in Files |-> 0]
    /\ audit_id = [f \in Files |-> 0]
    /\ ret = [f \in Files |-> Ret(FALSE, None)]
    /\ delays = [f \in Files |-> << >>]
    /\ phase = "scan"
    /\ todo = {}
    /\ issues_fixed = 0
    /\ faults = << >>
    /\ reconciles = 0
    /\ crashes = 0
    /\ crashed_mid = {}

SpecOrphan == InitOrphan /\ [][Next]_vars

\* The same program run with the idempotency caches populated or switched off.
InitShortcut ==
    /\ InitProgram
    /\ ~archive_rejects
    /\ caches_off \in BOOLEAN
    /\ audit_fail = NoAuditFailure

\* The same program while one of the audit operations raises inside, for every
\* call made for a given file (catalog locked, disk full).
AuditOps == {"create_processing_record", "update_processing_status", "record_attempt"}

InitAudit ==
    /\ InitProgram
    /\ ~archive_rejects
    /\ caches_off = FALSE
    /\ audit_fail \in [Files -> AuditOps \cup {None}]

SpecAudit == InitAudit /\ [][Next]_vars

\* The same program fed a document that lacks a required field, next to
\* documents of any kind.
InitFields ==
    /\ InitPipeline
    /\ content \in { c \in [Files -> Contents \cup Incomplete] :
                        /\ c[NumFiles] \in Incomplete
                        /\ \A f \in 1..(NumFiles - 1) : c[f] \in Contents }
    /\ archive_rejects = FALSE
    /\ caches_off = FALSE
    /\ audit_fail = NoAuditFailure

SpecFields == InitFields /\ [][Next]_vars

SpecShortcut == InitShortcut /\ [][Next]_vars

\* Lines 1141-1147: main() runs reconcile_processing_queue again every
\* RECONCILIATION_INTERVAL seconds, for as long as the process lives.  In the
\* long run every quarantine file is older than 300 s and every last attempt
\* older than 10 minutes, so a run takes all of them.
ReconcileBeginAll ==
    /\ phase = "scan"
    /\ AllIdle
    /\ phase' = "reconcile"
    /\ issues_fixed' = 0
    /\ todo' = { f \in Files : where[f] = "quarantine" }
    /\ UNCHANGED << env, fs, nota_fiscal, processing_audit, caches, pc, attempt,
                    audit_id, ret, delays, reconciles, faults, crashv >>

ReconcileFinishAll ==
    /\ phase = "reconcile"
    /\ todo = {}
    /\ AllIdle
    /\ processing_audit' =
          [i \in 1..Len(processing_audit) |->
              IF i \in StuckCandidates /\ ~FoundInStaging(processing_audit[i].fname)
                 THEN [processing_audit[i] EXCEPT !.current_status = "FAILED_PERMANENT"]
                 ELSE processing_audit[i]]
    /\ phase' = "scan"
    /\ UNCHANGED << env, fs, nota_fiscal, caches, pc, attempt, audit_id, ret, delays,
                    todo, reconciles, issues_fixed, faults, crashv >>

NextLive ==
    \/ \E f \in Files : Step(f)
    \/ ReconcileBeginAll
    \/ ReconcileFinishAll
    \/ CrashRestart

\* Every worker thread and the orchestrator thread keep running.
SpecLive ==
    /\ InitCrash
    /\ [][NextLive]_vars
    /\ \A f \in Files : WF_vars(Step(f))
    /\ WF_vars(ReconcileBeginAll)
    /\ WF_vars(ReconcileFinishAll)

\* ------------------------------------------------- the catalog writes, by lock
\* The catalog writes of one pipeline in program order: create_processing_record
\* (312-326), update_processing_status QUARANTINED (843), PROCESSING (853),
\* PARSED (680), get_or_create_company (683), the INSERT (711-727), DB_INSERTED
\* (728-730), FILE_MOVED (752-756) and SUCCESS (780-786) or the rollback DELETE
\* (763-767), record_attempt (859), and the next attempt after a failure.
NextSite(site) ==
    CASE site = "create"      -> {"quarantined"}
      [] site = "quarantined" -> {"processing"}
      [] site = "processing"  -> {"parsed"}
      [] site = "parsed"      -> {"company"}
      [] site = "company"     -> {"insert"}
      [] site = "insert"      -> {"db_inserted"}
      [] site = "db_inserted" -> {"file_moved", "rollback"}
      [] site = "file_moved"  -> {"success"}
      [] site = "success"     -> {"record_ok"}
      [] site = "rollback"    -> {"record_failed"}
      [] site = "record_ok"   -> {"done"}
      [] site = "record_failed" -> {"processing", "done"}
      [] OTHER                -> {"done"}

\* "with db_lock:" at lines 309, 347, 385, 454 and 466; the INSERT of lines
\* 706-745 and the DELETE of lines 761-768 open their own connection outside it.
UnderDbLock(site) == site \notin {"insert", "rollback"}

\* sqlite3.connect ... execute: the worker starts a catalog write, after
\* acquiring db_lock where the code takes it.
BeginWrite(f) ==
    /\ wsite[f] # "done"
    /\ ~writing[f]
    /\ IF UnderDbLock(wsite[f])
          THEN db_lock = 0 /\ db_lock' = f
          ELSE UNCHANGED db_lock
    /\ writing' = [writing EXCEPT ![f] = TRUE]
    /\ UNCHANGED << wsite, batchv, pipev >>

\* A with block that keeps its lock when it is left.
HeldAfterExit(holder, f) == holder

\* "with lock:" is left, by its last statement, a return or an exception: the
\* lock is released if this thread holds it.
ReleasedOnExit(holder, f) == IF holder = f THEN 0 ELSE holder

\* conn.commit(); conn.close(), and the end of the with block.
EndWrite(f) ==
    /\ writing[f]
    /\ db_lock' = ReleasedOnExit(db_lock, f)
    /\ writing' = [writing EXCEPT ![f] = FALSE]
    /\ \E n \in NextSite(wsite[f]) : wsite' = [wsite EXCEPT ![f] = n]
    /\ UNCHANGED << batchv, pipev >>

NextLock == \E f \in Files : BeginWrite(f) \/ EndWrite(f)

InitLock ==
    /\ Init
    /\ ~archive_rejects
    /\ \A f \in Files : content[f].bytes = "b1"

SpecLock == InitLock /\ [][NextLock]_vars

\* ---------------------------------------------------- get_or_create_company
RECURSIVE StripPunctuation(_)
\* Line 442: re.sub(r'[.\-/\\]', '', name)
StripPunctuation(name) ==
    IF name = << >> THEN << >>
    ELSE IF Head(name) \in {".", "-", "/", "\\"} THEN StripPunctuation(Tail(name))
    ELSE << Head(name) >> \o StripPunctuation(Tail(name))

RECURSIVE CollapseSpaces(_)
\* Line 443: re.sub(r'\s+', ' ', name): every run of whitespace becomes one space.
CollapseSpaces(name) ==
    IF Len(name) < 2 THEN name
    ELSE IF Head(name) = " " /\ name[2] = " " THEN CollapseSpaces(Tail(name))
    ELSE << Head(name) >> \o CollapseSpaces(Tail(name))

\* Line 443: .strip()
Strip(name) ==
    LET a == IF name # << >> /\ Head(name) = " " THEN Tail(name) ELSE name
    IN  IF a # << >> /\ a[Len(a)] = " " THEN SubSeq(a, 1, Len(a) - 1) ELSE a

\* Line 444: .upper()
Upper(ch) ==
    CASE ch = "a" -> "A" [] ch = "b" -> "B" [] ch = "c" -> "C" [] OTHER -> ch

\* Lines 440-444: standardize_company_name.
standardize_company_name(name) ==
    LET n == Strip(CollapseSpaces(StripPunctuation(name)))
    IN  [i \in 1..Len(n) |-> Upper(n[i])]

\* A cache entry that keeps the old spelling.
RenamedNot(cached, nome) == cached

\* Line 462: company_cache[cnpj]["nome"] = nome_padronizado
Renamed(cached, nome) == [cached EXCEPT !.nome = nome]

CacheEntry(cnpj) == CHOOSE e \in company_cache : e.cnpj = cnpj
IssuerRow(cnpj) == CHOOSE r \in empresa : r.cnpj = cnpj

\* A worker calls get_or_create_company(cnpj, nome_xml) (line 683).
CallCompany(f) ==
    /\ gpc[f] = "out"
    /\ \E c \in Cnpjs, n \in RawNames : garg' = [garg EXCEPT ![f] = [cnpj |-> c, nome_xml |-> n]]
    /\ gpc' = [gpc EXCEPT ![f] = "wait"]
    /\ nome_final' = [nome_final EXCEPT ![f] = NoName]
    /\ UNCHANGED << empresa, company_cache, cache_lock, returned, filev, lockv, batchv >>

\* Line 450: with cache_lock.
AcquireCacheLock(f) ==
    /\ gpc[f] = "wait"
    /\ cache_lock = 0
    /\ cache_lock' = f
    /\ gpc' = [gpc EXCEPT ![f] = "body"]
    /\ UNCHANGED << empresa, company_cache, garg, returned, nome_final, filev, lockv,
                    batchv >>

\* Lines 451-463: the tax ID is cached: UPDATE empresa and the cache entry when
\* the spelling differs.  Lines 466-489: otherwise SELECT; UPDATE the row when
\* the spelling differs, or INSERT a row (id = lastrowid); write the cache entry.
\* A statement that raises leaves the table and the cache as they were.
CompanyBody(f) ==
    /\ gpc[f] = "body"
    /\ LET cnpj == garg[f].cnpj
           nome_padronizado == standardize_company_name(garg[f].nome_xml)
       IN  \/ /\ \E e \in company_cache : e.cnpj = cnpj
              /\ LET cached == CacheEntry(cnpj) IN
                 IF cached.nome # nome_padronizado
                    THEN /\ empresa' = { IF r.cnpj = cnpj
                                            THEN [r EXCEPT !.nome = nome_padronizado]
                                            ELSE r : r \in empresa }
                         /\ company_cache' = (company_cache \ {cached}) \cup
                                                {Renamed(cached, nome_padronizado)}
                    ELSE UNCHANGED << empresa, company_cache >>
              /\ gpc' = [gpc EXCEPT ![f] = "return"]
           \/ /\ ~\E e \in company_cache : e.cnpj = cnpj
              /\ IF \E r \in empresa : r.cnpj = cnpj
                    THEN LET row == IssuerRow(cnpj) IN
                         /\ empresa' = (empresa \ {row}) \cup
                                          {[row EXCEPT !.nome = nome_padronizado]}
                         /\ company_cache' = company_cache \cup
                               {[cnpj |-> cnpj, id |-> row.id, nome |-> nome_padronizado]}
                    ELSE LET company_id == Cardinality(empresa) + 1 IN
                         /\ empresa' = empresa \cup
                               {[cnpj |-> cnpj, id |-> company_id, nome |-> nome_padronizado]}
                         /\ company_cache' = company_cache \cup
                               {[cnpj |-> cnpj, id |-> company_id, nome |-> nome_padronizado]}
              /\ gpc' = [gpc EXCEPT ![f] = "return"]
           \/ /\ gpc' = [gpc EXCEPT ![f] = "raise"]
              /\ UNCHANGED << empresa, company_cache >>
    /\ UNCHANGED << cache_lock, garg, returned, nome_final, filev, lockv, batchv >>

\* Lines 463 and 490: return the id, leaving the with block, and go on to line
\* 684; or the exception leaves the with block and atomic_process_file.
CompanyReturn(f) ==
    /\ gpc[f] \in {"return", "raise"}
    /\ cache_lock' = 0
    /\ returned' = IF gpc[f] = "return"
                      THEN [returned EXCEPT ![garg[f].cnpj] = @ \cup {CacheEntry(garg[f].cnpj).id}]
                      ELSE returned
    /\ gpc' = [gpc EXCEPT ![f] = IF gpc[f] = "return" THEN "read" ELSE "out"]
    /\ UNCHANGED << empresa, company_cache, garg, nome_final, filev, lockv, batchv >>

\* Line 448: the canonical form of the name the worker's document carries.
OwnName(f) == standardize_company_name(garg[f].nome_xml)

\* Line 684: nome_empresa_final = company_cache[info["cnpj"]]["nome"]
CachedName(f) == CacheEntry(garg[f].cnpj).nome

\* Lines 684-691: back in atomic_process_file the worker reads the cache entry
\* of the tax ID, outside any lock, for the first component of the destination.
ReadName(f) ==
    /\ gpc[f] = "read"
    /\ nome_final' = [nome_final EXCEPT ![f] = CachedName(f)]
    /\ gpc' = [gpc EXCEPT ![f] = "out"]
    /\ UNCHANGED << empresa, company_cache, cache_lock, garg, returned, filev, lockv,
                    batchv >>

\* Lines 688-690: the first component of destination_path,
\* f"{nome_empresa_final} - {info['cnpj']}".
IssuerDir(f) == << nome_final[f], garg[f].cnpj >>

\* The process dies and main() starts again: lines 597-599, load_caches reads
\* company_cache from the empresa table.
CompanyRestart ==
    /\ \E f \in Files : gpc[f] # "out"
    /\ company_cache' = empresa
    /\ cache_lock' = 0
    /\ gpc' = [f \in Files |-> "out"]
    /\ nome_final' = [f \in Files |-> NoName]
    /\ UNCHANGED << empresa, garg, returned, filev, lockv, batchv >>

NextIssuer ==
    \/ \E f \in Files : CallCompany(f) \/ AcquireCacheLock(f) \/ CompanyBody(f)
                            \/ CompanyReturn(f) \/ ReadName(f)
    \/ CompanyRestart

SpecIssuer == InitLock /\ [][NextIssuer]_vars

\* ------------------------------------------------------- the two locks together
\* Line 683 and line 450: the worker calls get_or_create_company and asks for
\* cache_lock.
EnterCompany(f) ==
    /\ wsite[f] = "company"
    /\ gpc[f] = "out"
    /\ gpc' = [gpc EXCEPT ![f] = "wait"]
    /\ UNCHANGED << empresa, company_cache, cache_lock, garg, returned, nome_final,
                    filev, lockv, batchv >>

\* Lines 451-453 and 464: the tax ID is cached under the same name: no catalog
\* access, return.
SkipDb(f) ==
    /\ gpc[f] = "body"
    /\ gpc' = [gpc EXCEPT ![f] = "return"]
    /\ UNCHANGED << empresa, company_cache, cache_lock, garg, returned, nome_final,
                    filev, lockv, batchv >>

\* Lines 454 and 466: "with db_lock:" reached inside "with cache_lock:".
RequestDb(f) ==
    /\ gpc[f] = "body"
    /\ gpc' = [gpc EXCEPT ![f] = "dbwait"]
    /\ UNCHANGED << empresa, company_cache, cache_lock, garg, returned, nome_final,
                    filev, lockv, batchv >>

\* Lines 454 and 466: db_lock acquired.
TakeDbInside(f) ==
    /\ gpc[f] = "dbwait"
    /\ db_lock = 0
    /\ db_lock' = f
    /\ gpc' = [gpc EXCEPT ![f] = "db"]
    /\ UNCHANGED << empresa, company_cache, cache_lock, garg, returned, nome_final,
                    filev, wsite, writing, batchv >>

\* Lines 455-462 and 467-488: the statements under db_lock end or raise; the
\* inner with block is left.
ReleaseDbInside(f) ==
    /\ gpc[f] = "db"
    /\ db_lock' = ReleasedOnExit(db_lock, f)
    /\ \E next \in {"return", "raise"} : gpc' = [gpc EXCEPT ![f] = next]
    /\ UNCHANGED << empresa, company_cache, cache_lock, garg, returned, nome_final,
                    filev, wsite, writing, batchv >>

\* Lines 464 and 490, or the exception: the outer with block is left; the
\* worker goes on to the INSERT, or through the handler of lines 798-802 to
\* record_attempt.
LeaveCompany(f) ==
    /\ gpc[f] \in {"return", "raise"}
    /\ cache_lock' = ReleasedOnExit(cache_lock, f)
    /\ gpc' = [gpc EXCEPT ![f] = "out"]
    /\ wsite' = [wsite EXCEPT ![f] = IF gpc[f] = "return" THEN "insert" ELSE "record_failed"]
    /\ UNCHANGED << empresa, company_cache, garg, returned, nome_final, filev, db_lock,
                    writing, batchv >>

\* A catalog write other than those of get_or_create_company.
BeginPlainWrite(f) == wsite[f] # "company" /\ BeginWrite(f)

\* What the thread of worker f does about the two locks.
LockStep(f) ==
    \/ BeginPlainWrite(f)
    \/ EndWrite(f)
    \/ EnterCompany(f)
    \/ AcquireCacheLock(f)
    \/ SkipDb(f)
    \/ RequestDb(f)
    \/ TakeDbInside(f)
    \/ ReleaseDbInside(f)
    \/ LeaveCompany(f)

NextLocks == \E f \in Files : LockStep(f)

\* Every thread keeps running, and a thread that finds a lock free again and
\* again gets it in the end.
SpecLocks ==
    /\ InitLock
    /\ [][NextLocks]_vars
    /\ \A f \in Files :
          /\ WF_vars(LockStep(f))
          /\ SF_vars(BeginPlainWrite(f))
          /\ SF_vars(AcquireCacheLock(f))
          /\ SF_vars(TakeDbInside(f))

\* --------------------------------------------------------- move_to_quarantine
\* The clock advances by one unit of its resolution.
Tick ==
    /\ now < MaxClock
    /\ now' = now + 1
    /\ UNCHANGED << src_name, stamp, qpc, qdir, audit_events, caches_off, audit_fail,
                    content, archive_rejects, fs, nota_fiscal, processing_audit, caches,
                    pc, attempt, audit_id, ret, delays, orch, faults, crashv, issuerv,
                    lockv, batchv >>

\* Line 624: timestamp = datetime.now().strftime('%Y%m%d_%H%M%S_%f')
ReadClock(f) ==
    /\ qpc[f] = "source"
    /\ stamp' = [stamp EXCEPT ![f] = now]
    /\ qpc' = [qpc EXCEPT ![f] = "stamped"]
    /\ UNCHANGED << now, src_name, qdir, audit_events, caches_off, audit_fail,
                    content, archive_rejects, fs, nota_fiscal, processing_audit, caches,
                    pc, attempt, audit_id, ret, delays, orch, faults, crashv, issuerv,
                    lockv, batchv >>

\* Line 625: QUARANTINE_DIRECTORY / f"{timestamp}_{source.name}"
QuarantinePath(f) == << stamp[f], src_name[f] >>

\* Line 627: shutil.move(source, quarantine_file): the file becomes the entry
\* of that path, replacing a file that is already there.
MoveIn(f) ==
    /\ qpc[f] = "stamped"
    /\ qdir' = { e \in qdir : e.path # QuarantinePath(f) } \cup
                  {[path |-> QuarantinePath(f), file |-> f]}
    /\ qpc' = [qpc EXCEPT ![f] = "moved"]
    /\ UNCHANGED << now, src_name, stamp, audit_events, caches_off, audit_fail,
                    content, archive_rejects, fs, nota_fiscal, processing_audit, caches,
                    pc, attempt, audit_id, ret, delays, orch, faults, crashv, issuerv,
                    lockv, batchv >>

NextQuarantine == Tick \/ \E f \in Files : ReadClock(f) \/ MoveIn(f)

SpecQuarantine == InitLock /\ [][NextQuarantine]_vars

\* ------------------------------------------- main, scan_and_process, process_batch
Min(a, b) == IF a < b THEN a ELSE b

\* Lines 956-961: xml_files = list(rglob("*.xml")); return when it is empty.
ScanBegin ==
    /\ orch_pc = "sleep"
    /\ \E n \in 0..MaxInbox :
          /\ scan_left' = n
          /\ orch_pc' = IF n = 0 THEN "after_scan" ELSE "scan"
    /\ batch_num' = 0
    /\ UNCHANGED << queued, running, lockv, pipev >>

\* Lines 970-975 and 913-914: the next BATCH_SIZE files go to process_batch,
\* which submits every one of them to a new executor.
SubmitBatch ==
    /\ orch_pc = "scan"
    /\ scan_left > 0
    /\ queued' = queued + Min(scan_left, BATCH_SIZE)
    /\ scan_left' = scan_left - Min(scan_left, BATCH_SIZE)
    /\ batch_num' = batch_num + 1
    /\ orch_pc' = "batch"
    /\ UNCHANGED << running, lockv, pipev >>

\* Line 913: ThreadPoolExecutor(max_workers=MAX_WORKERS): a queued work item
\* starts when fewer than MAX_WORKERS are in flight.
WorkerStart ==
    /\ queued > 0
    /\ running < MAX_WORKERS
    /\ queued' = queued - 1
    /\ running' = running + 1
    /\ UNCHANGED << orch_pc, scan_left, batch_num, lockv, pipev >>

\* process_single_file_with_retry returns on its worker thread.
WorkerFinish ==
    /\ running > 0
    /\ running' = running - 1
    /\ UNCHANGED << orch_pc, scan_left, batch_num, queued, lockv, pipev >>

\* A process_batch that returns as soon as every work item has started.
BatchDoneWhenStarted == queued = 0

\* Lines 916-932: as_completed(futures) yields every future, and leaving the
\* with block joins the executor's threads.
BatchDone == queued = 0 /\ running = 0

\* Line 934: return stats; lines 970-990: the next batch, or the end of the scan.
BatchReturn ==
    /\ orch_pc = "batch"
    /\ BatchDone
    /\ orch_pc' = IF scan_left > 0 THEN "scan" ELSE "after_scan"
    /\ UNCHANGED << scan_left, batch_num, queued, running, lockv, pipev >>

\* Lines 1144-1149: after the scan, reconcile_processing_queue when
\* RECONCILIATION_INTERVAL has passed, then time.sleep(SCAN_INTERVAL).
AfterScan ==
    /\ orch_pc = "after_scan"
    /\ orch_pc' \in {"reconcile", "sleep"}
    /\ UNCHANGED << scan_left, batch_num, queued, running, lockv, pipev >>

\* Lines 992-1105: the reconciliation run returns on the orchestrator thread.
ReconcileReturn ==
    /\ orch_pc = "reconcile"
    /\ orch_pc' = "sleep"
    /\ UNCHANGED << scan_left, batch_num, queued, running, lockv, pipev >>

\* Lines 1138-1142 and 1156-1160: the cycle raises (rglob on an unreadable
\* inbox directory); the handler logs SYSTEM_ERROR and sleeps 10 seconds.
CycleError ==
    /\ orch_pc = "sleep"
    /\ orch_pc' = "error"
    /\ audit_events' = audit_log("SYSTEM_ERROR", 0)
    /\ UNCHANGED << scan_left, batch_num, queued, running, lockv, silent, issuerv >>

\* Line 1160: time.sleep(10) returns and the loop goes round.
ErrorSleepDone ==
    /\ orch_pc = "error"
    /\ orch_pc' = "sleep"
    /\ UNCHANGED << scan_left, batch_num, queued, running, lockv, pipev >>

\* KeyboardInterrupt is raised in the main thread, wherever it is.  Inside
\* process_batch it leaves the with block of line 914, whose exit waits for
\* the executor (shutdown(wait=True)); elsewhere inside the try of line 1138 it
\* reaches the handler of lines 1151-1154; inside the handler of lines
\* 1156-1160 no handler is left and main() ends with the exception.
Interrupt ==
    /\ orch_pc \notin {"draining", "stopped", "killed"}
    /\ IF orch_pc = "batch"
          THEN orch_pc' = "draining" /\ UNCHANGED audit_events
          ELSE IF orch_pc = "error"
          THEN orch_pc' = "killed" /\ UNCHANGED audit_events
          ELSE orch_pc' = "stopped" /\ audit_events' = audit_log("SYSTEM_STOPPED", 0)
    /\ UNCHANGED << scan_left, batch_num, queued, running, lockv, silent, issuerv >>

\* The executor has run every submitted work item; the exception goes on to
\* the handler of lines 1151-1154: SYSTEM_STOPPED, break.
Drained ==
    /\ orch_pc = "draining"
    /\ BatchDone
    /\ orch_pc' = "stopped"
    /\ audit_events' = audit_log("SYSTEM_STOPPED", 0)
    /\ UNCHANGED << scan_left, batch_num, queued, running, lockv, silent, issuerv >>

NextBatch ==
    \/ ScanBegin
    \/ SubmitBatch
    \/ WorkerStart
    \/ WorkerFinish
    \/ BatchReturn
    \/ AfterScan
    \/ ReconcileReturn

SpecBatch == InitLock /\ [][NextBatch]_vars

NextStop ==
    \/ NextBatch
    \/ CycleError
    \/ ErrorSleepDone
    \/ Interrupt
    \/ Drained

SpecStop == InitLock /\ [][NextStop]_vars

\* ===================================================================== claims
AuditOf(f) == processing_audit[audit_id[f]]

RowsWithKey(k) == { r \in nota_fiscal : r.chave_acesso = k }

\* C1: in every reachable state, under any interleaving of workers and
\* reconciliation runs, nota_fiscal holds at most one row per access key and at
\* most one row per content hash.
C1_Uniqueness ==
    \A r1 \in nota_fiscal, r2 \in nota_fiscal :
        (r1.chave_acesso = r2.chave_acesso \/ r1.hash_arquivo = r2.hash_arquivo)
            => r1 = r2

\* A second file carrying the key of a committed row, in other bytes and with
\* both caches missing, has just been refused by the insert.
C1_Witness ==
    \E f \in Files :
        /\ pc[f] = "unlink"
        /\ AuditOf(f).current_status = "DUPLICATE"
        /\ content[f].key \notin processed_keys
        /\ \E r \in nota_fiscal :
              /\ r.chave_acesso = content[f].key
              /\ r.hash_arquivo # calculate_file_hash(f)

\* C2: no file is lost: a file taken from the inbox is in quarantine, in the
\* archive with a Document row pointing at it, in the dead-letter directory, or
\* was deleted as DUPLICATE while a Document row with its hash or key exists,
\* and that row keeps existing afterwards.
C2_NoFileLost ==
    \A f \in Files :
        \/ where[f] \in {"inbox", "quarantine", "dead_letter"}
        \/ /\ where[f] = "archive"
           /\ \E r \in nota_fiscal : r.caminho_arquivo = DestinationPath(f)
        \/ /\ where[f] = "deleted"
           /\ \E r \in nota_fiscal :
                 \/ r.hash_arquivo = calculate_file_hash(f)
                 \/ r.chave_acesso = content[f].key

Induced(kind, f) == \E i \in 1..Len(faults) : faults[i] = << kind, f >>

\* C3: when the insert of an attempt has committed and the directory creation
\* or the move then fails, the attempt returns with no Document row of that
\* access key, the file still in quarantine, and the failure kind
\* FILE_PERMISSION_ERROR.
C3_RollbackOnMoveFailure ==
    [][ \A f \in Files :
          (pc[f] = "rollback" /\ pc'[f] = "record") =>
              /\ RowsWithKey(content[f].key)' = {}
              /\ where'[f] = "quarantine"
              /\ ret'[f] = Ret(FALSE, "FILE_PERMISSION_ERROR") ]_vars

\* The reconciler has run the pipeline on file f again and is done.
Reconciled(f) ==
    /\ phase = "scan"
    /\ pc[f] = "idle"
    /\ \E i \in 1..Len(processing_audit) :
          /\ processing_audit[i].fname[1] = f
          /\ processing_audit[i].fname[2] >= 1

\* C4: after a crash between the committed insert and the move, a restart and
\* a reconciliation run over the stale quarantine file, the file is at its
\* archive path and exactly one Document row exists for its key, as on the
\* uninterrupted path.
C4_CrashRecovery ==
    \A f \in crashed_mid :
        (Reconciled(f) /\ faults = << >>) =>
            /\ where[f] = "archive"
            /\ Cardinality(RowsWithKey(content[f].key)) = 1
            /\ \A r \in RowsWithKey(content[f].key) : r.caminho_arquivo \in archive

Quiescent == AllIdle /\ phase = "scan"

\* C5: whenever no attempt is in progress, the path stored in every Document
\* row is an existing file of the archive.
C5_RowsHaveFiles ==
    Quiescent => \A r \in nota_fiscal : r.caminho_arquivo \in archive

\* C6: in every reachable state every file under the archive root has a
\* Document row whose stored path is the path of that file.
C6_ArchiveFilesHaveRows ==
    \A p \in archive : \E r \in nota_fiscal : r.caminho_arquivo = p

SuccessKeys ==
    { processing_audit[i].chave_acesso :
        i \in { j \in 1..Len(processing_audit) :
                    processing_audit[j].current_status = "SUCCESS" } }

\* C7: in every reachable state every audit row in status SUCCESS has exactly
\* one Document row with its access key, and that row is never removed
\* afterwards.
C7_SuccessHasItsRow ==
    /\ [](\A k \in SuccessKeys : Cardinality(RowsWithKey(k)) = 1)
    /\ [][ \A r \in nota_fiscal :
             r.chave_acesso \in SuccessKeys => r \in nota_fiscal' ]_vars

\* A file has reached SUCCESS and, after that, another file has been through a
\* rollback.
C7_Witness ==
    /\ SuccessKeys # {}
    /\ \E f \in Files :
          /\ pc[f] = "record"
          /\ ret[f].error_type = "FILE_PERMISSION_ERROR"
          /\ ~Induced("rollback", f)
          /\ \E g \in Files : g # f /\ where[g] = "archive" /\ pc[g] = "idle"

\* C8: whenever no attempt is in progress, every Document row has an audit row
\* in status SUCCESS with the same access key and the same content hash.
C8_RowsHaveSuccessAudit ==
    Quiescent =>
        \A r \in nota_fiscal :
            \E i \in 1..Len(processing_audit) :
                /\ processing_audit[i].current_status = "SUCCESS"
                /\ processing_audit[i].chave_acesso = r.chave_acesso
                /\ processing_audit[i].file_hash = r.hash_arquivo

Backoff == << 2, 4, 8, 16 >>

\* The sleeps that precede attempt number n of a file.
SleepsBefore(n) == SubSeq(Backoff, 1, n - 1)

\* C9: a file is attempted at most MAX_RETRY_ATTEMPTS times; the sleep after
\* failed attempt k is RETRY_DELAY_BASE^k seconds (2, 4, 8, 16, at most 30 in
\* all), and nothing is slept after the last attempt, after a success or after
\* a DUPLICATE outcome.
C9_RetryBackoff ==
    \A f \in Files :
        /\ attempt[f] <= MAX_RETRY_ATTEMPTS
        /\ Len(delays[f]) <= MAX_RETRY_ATTEMPTS - 1
        /\ \A k \in 1..Len(delays[f]) :
              delays[f][k] = Pow(RETRY_DELAY_BASE, k) /\ delays[f][k] = Backoff[k]
        /\ pc[f] = "begin" => Len(delays[f]) = attempt[f]
        /\ (pc[f] \notin {"begin", "idle", "quarantine"}) =>
              delays[f] = SleepsBefore(attempt[f])
        /\ (pc[f] = "idle" /\ attempt[f] > 0) =>
              delays[f] = SleepsBefore(attempt[f])

\* A file has failed every attempt and slept four times, 30 seconds in all.
C9_Witness ==
    \E f \in Files :
        /\ pc[f] = "dead"
        /\ attempt[f] = MAX_RETRY_ATTEMPTS
        /\ delays[f] = Backoff
        /\ delays[f][1] + delays[f][2] + delays[f][3] + delays[f][4] = 30

\* The controller of file f gives up: its last attempt has failed and the
\* dead-letter step is taken.
GivesUp(f) == pc[f] = "dead" /\ pc'[f] = "idle"

DeadLetterAudited(f) ==
    /\ AuditOf(f).current_status = "FAILED_PERMANENT"
    /\ AuditOf(f).final_destination = DeadLetterPath(f)
    /\ AuditOf(f).last_error_type = ret[f].error_type

DeadLetterFilesAudited ==
    \A g \in Files :
        where[g] = "dead_letter" =>
            \E i \in 1..Len(processing_audit) :
                /\ processing_audit[i].current_status = "FAILED_PERMANENT"
                /\ processing_audit[i].final_destination = DeadLetterPath(g)

RowsOfFile(f) == { r \in nota_fiscal : r.caminho_arquivo = DestinationPath(f) }

\* C10: when the MAX_RETRY_ATTEMPTS-th attempt of a file fails, the controller
\* leaves the file in the dead-letter directory and its audit row
\* FAILED_PERMANENT, with the dead-letter path as final destination and the
\* kind of the last failure as last error kind (FILE_PERMISSION_ERROR, and no
\* Document row of the file, when the archive rejects writes); every
\* dead-letter file has a FAILED_PERMANENT audit row.
C10_DeadLetter ==
    /\ [][ \A f \in Files :
             GivesUp(f) =>
                 /\ attempt[f] = MAX_RETRY_ATTEMPTS
                 /\ where'[f] = "dead_letter"
                 /\ DeadLetterAudited(f)'
                 /\ ret[f].error_type = "FILE_PERMISSION_ERROR" =>
                        RowsOfFile(f) = {} ]_vars
    /\ []DeadLetterFilesAudited


\* The pipeline of file f was started after a file with the same bytes, or with
\* the same access key, had reached SUCCESS.
FedAfterSuccess(f) ==
    /\ audit_id[f] # 0
    /\ \E i \in 1..Len(processing_audit) :
          /\ processing_audit[i].current_status = "SUCCESS"
          /\ processing_audit[i].completed_at < audit_id[f]
          /\ \/ processing_audit[i].file_hash = calculate_file_hash(f)
             \/ processing_audit[i].chave_acesso = content[f].key

ArchiveFilesOf(f) == { p \in archive : p.name[1] = f }

\* C11: a file fed after a file with identical bytes, or with the same access
\* key and other bytes, has reached SUCCESS, and taken into quarantine, ends with
\* its audit row DUPLICATE and its quarantine file removed; it adds no archive
\* file and the key keeps exactly one Document row.
C11_SecondFileIsDuplicate ==
    \A f \in Files :
        (FedAfterSuccess(f) /\ pc[f] = "idle" /\ gen[f] >= 1) =>
            /\ AuditOf(f).current_status = "DUPLICATE"
            /\ where[f] = "deleted"
            /\ ArchiveFilesOf(f) = {}
            /\ Cardinality(RowsWithKey(content[f].key)) = 1

\* A file with the key of an archived file, in other bytes, has ended DUPLICATE.
C11_Witness ==
    \E f \in Files :
        /\ FedAfterSuccess(f)
        /\ pc[f] = "idle"
        /\ where[f] = "deleted"
        /\ AuditOf(f).current_status = "DUPLICATE"
        /\ calculate_file_hash(f) \notin processed_hashes
        /\ content[f].key \in processed_keys

\* The files that carry access key k.
FilesWithKey(k) == { f \in Files : content[f].valid /\ content[f].key = k }

\* Every file of the set has been through its pipeline, which has returned.
Done(S) == \A f \in S : where[f] # "inbox" /\ pc[f] = "idle" /\ audit_id[f] # 0

ArchiveFilesWithKey(k) == { p \in archive : p.dir = k }

\* C12: with no induced failure, whatever the interleaving of the workers that
\* process the files of one batch carrying the same access key (in the same or
\* in different bytes), exactly one of them ends SUCCESS and every other one
\* DUPLICATE, and the key has exactly one Document row and one archive file.
C12_OneWinnerPerKey ==
    \A f \in Files :
        LET S == FilesWithKey(content[f].key)
        IN  (content[f].valid /\ faults = << >> /\ ~archive_rejects /\ Done(S)) =>
               /\ Cardinality({ g \in S : AuditOf(g).current_status = "SUCCESS" }) = 1
               /\ \A g \in S : AuditOf(g).current_status \in {"SUCCESS", "DUPLICATE"}
               /\ Cardinality(RowsWithKey(content[f].key)) = 1
               /\ Cardinality(ArchiveFilesWithKey(content[f].key)) = 1

\* Two files with one key in different bytes have raced: the loser was started
\* before the winner reached SUCCESS and was refused by the table.
C12_Witness ==
    \E f \in Files, g \in Files :
        /\ f # g
        /\ content[f].key = content[g].key
        /\ calculate_file_hash(f) # calculate_file_hash(g)
        /\ faults = << >>
        /\ Done({f, g})
        /\ AuditOf(g).current_status = "SUCCESS"
        /\ AuditOf(f).current_status = "DUPLICATE"
        /\ ~FedAfterSuccess(f)
        /\ where[f] = "deleted"

\* The attempt of file f that has set DUPLICATE ends: it unlinks and returns.
EndsDuplicate(f) ==
    /\ pc[f] = "unlink"
    /\ pc'[f] = "record"
    /\ AuditOf(f).current_status = "DUPLICATE"

OwnsHashOrKey(f) ==
    \E r \in nota_fiscal :
        \/ r.hash_arquivo = calculate_file_hash(f)
        \/ content[f].valid /\ r.chave_acesso = content[f].key

\* C13: whenever an attempt ends with the audit row DUPLICATE, on any of the
\* four duplicate paths, the quarantine file is removed, the attempt has added
\* no Document row, and at that moment a Document row with the content hash or
\* the access key of the file exists.
C13_DuplicateHasOwner ==
    [][ \A f \in Files :
          EndsDuplicate(f) =>
              /\ where[f] = "quarantine" /\ where'[f] = "deleted"
              /\ nota_fiscal' = nota_fiscal
              /\ OwnsHashOrKey(f)' ]_vars

\* The audit rows created for file f, under whichever name it then had.
AuditRowsOf(f) ==
    { i \in 1..Len(processing_audit) : processing_audit[i].fname[1] = f }

\* C14: in every reachable state every file of the quarantine directory has an
\* audit row whose current status is PENDING, QUARANTINED, PROCESSING, PARSED or
\* DB_INSERTED.
C14_QuarantineIsIntermediate ==
    \A f \in Files :
        where[f] = "quarantine" =>
            \E i \in AuditRowsOf(f) :
                processing_audit[i].current_status \in Intermediate

\* File f lay in quarantine with no audit row before any pipeline touched it.
Orphan(f) ==
    /\ gen[f] >= 1
    /\ \A i \in AuditRowsOf(f) : processing_audit[i].fname[2] >= 1

\* No other file carries the bytes or the access key of f.
FreshKey(f) ==
    \A g \in Files \ {f} :
        /\ content[g].key # content[f].key
        /\ calculate_file_hash(g) # calculate_file_hash(f)

NoFaultOn(f) == \A i \in 1..Len(faults) : faults[i][2] # f

\* C15: a reconciliation run starts the whole single-file pipeline on every
\* stale quarantine file before it ends; for a stale, parseable file with a
\* fresh key and no audit row, an audit row is created and ends SUCCESS, the
\* file is archived with exactly one Document row, and the run counts one
\* fixed issue for it.
C15_ReconcileRecoversOrphan ==
    /\ [][ \A f \in Files :
             /\ (f \in todo /\ f \notin todo') =>
                    /\ pc'[f] = "quarantine"
                    /\ Len(processing_audit') = Len(processing_audit) + 1
                    /\ processing_audit'[audit_id'[f]].fname = QName(f)
             /\ (phase = "reconcile" /\ pc[f] = "record" /\ pc'[f] = "idle") =>
                    /\ issues_fixed' = issues_fixed + 1
                    /\ phase' = "reconcile" ]_vars
    /\ [](phase = "scan" => todo = {})
    /\ [](\A f \in Files :
            (Orphan(f) /\ content[f].valid /\ FreshKey(f) /\ NoFaultOn(f)
               /\ Reconciled(f)) =>
                  /\ AuditOf(f).current_status = "SUCCESS"
                  /\ where[f] = "archive"
                  /\ DestinationPath(f) \in archive
                  /\ Cardinality(RowsWithKey(content[f].key)) = 1)

\* The reconciler has recovered an orphan: archived, SUCCESS, one fixed issue.
C15_Witness ==
    \E f \in Files :
        /\ Orphan(f)
        /\ FreshKey(f)
        /\ Reconciled(f)
        /\ AuditOf(f).current_status = "SUCCESS"
        /\ where[f] = "archive"
        /\ issues_fixed = 1

\* Nothing is left over: no audit row in an intermediate status, no file in
\* quarantine.
Recovered ==
    /\ \A i \in 1..Len(processing_audit) :
          processing_audit[i].current_status \notin Intermediate
    /\ \A f \in Files : where[f] # "quarantine"

\* C16: if the process dies at any point of a pipeline, then after the restart
\* and the reconciliation runs that follow, from some moment on no audit row
\* is in an intermediate status and no file is in quarantine.
C16_CrashLeftoversRecovered == <>[](crashes >= 1 => Recovered)

\* Step 2 of a reconciliation run finishes it.
ReconcileStep2 == phase = "reconcile" /\ phase' = "scan"

\* C17: in a reconciliation run an audit row in the intermediate set is marked
\* FAILED_PERMANENT (file lost) only if its file is in none of the staging
\* directories; a row whose file is still in quarantine keeps its status.
C17_LostOnlyIfAbsent ==
    [][ \A i \in 1..Len(processing_audit) :
          (ReconcileStep2 /\ where[processing_audit[i].fname[1]] = "quarantine") =>
              processing_audit'[i].current_status = processing_audit[i].current_status
      ]_vars

\* C18: once the current status of an audit row is SUCCESS, DUPLICATE or
\* FAILED_PERMANENT it never changes again, whatever attempts, filesystem
\* failures, retries and reconciliation runs follow.
C18_TerminalIsFinal ==
    [][ \A i \in 1..Len(processing_audit) :
          processing_audit[i].current_status \in Terminal =>
              processing_audit'[i].current_status = processing_audit[i].current_status
      ]_vars

\* The insert of the attempt of file f is refused by a UNIQUE constraint.
InsertRefused(f) ==
    /\ DestinationPath(f) \notin archive
    /\ IntegrityError(NewDocument(f))

\* The attempt of file f is on the integrity path and about to remove its file.
OnIntegrityPath(f) ==
    /\ pc[f] = "unlink"
    /\ calculate_file_hash(f) \notin processed_hashes
    /\ content[f].key \notin processed_keys
    /\ InsertRefused(f)

\* C19: an integrity violation on the document insert is reported as
\* DUPLICATE, the attempt returns success, no retry follows and the file is not
\* dead-lettered for it; any other insert error returns a failed attempt of
\* kind DB_CONNECTION_ERROR, leaves no Document row from the attempt, and is
\* retried while the budget lasts.
C19_InsertErrors ==
    [][ \A f \in Files :
          /\ (pc[f] = "insert" /\ pc'[f] = "unlink" /\ InsertRefused(f)) =>
                /\ AuditOf(f)'.current_status = "DUPLICATE"
                /\ nota_fiscal' = nota_fiscal
          /\ (OnIntegrityPath(f) /\ pc'[f] # "unlink") =>
                /\ ret'[f] = Ret(TRUE, None)
                /\ pc'[f] = "record"
          /\ (pc[f] = "record" /\ pc'[f] # "record"
                /\ AuditOf(f).current_status = "DUPLICATE") => pc'[f] = "idle"
          /\ (pc[f] = "insert" /\ pc'[f] = "record") =>
                /\ ret'[f] = Ret(FALSE, "DB_CONNECTION_ERROR")
                /\ nota_fiscal' = nota_fiscal
          /\ (pc[f] = "record" /\ pc'[f] # "record"
                /\ ret[f] = Ret(FALSE, "DB_CONNECTION_ERROR")) =>
                pc'[f] = IF attempt[f] < MAX_RETRY_ATTEMPTS THEN "sleep" ELSE "dead"
      ]_vars

\* C20: a failed attempt is recorded with the transient status of the stage
\* that failed (FAILED_PARSING for a failed extraction, FAILED_DB for a
\* non-integrity insert error, FAILED_MOVE for a failed move), and after a
\* failed move the audit row itself shows FAILED_MOVE for that attempt.
C20_FailedAttemptStatus ==
    /\ \A i \in DOMAIN processing_audit :
          \A k \in DOMAIN processing_audit[i].attempts :
              LET a == processing_audit[i].attempts[k] IN
              /\ a.error_type = "XML_INVALID_STRUCTURE" => a.status = "FAILED_PARSING"
              /\ a.error_type = "DB_CONNECTION_ERROR" => a.status = "FAILED_DB"
              /\ a.error_type = "FILE_PERMISSION_ERROR" => a.status = "FAILED_MOVE"
    /\ \A f \in Files :
          (pc[f] \in {"sleep", "dead"} /\ ret[f].error_type = "FILE_PERMISSION_ERROR") =>
              AuditOf(f).current_status = "FAILED_MOVE"

\* The pipeline of f has run and returned.
PipelineEnded(f) == pc[f] = "idle" /\ audit_id[f] # 0

\* C21: when the pipeline of a file ends, attempt_count of its audit row is the
\* number of attempts made, there is exactly one attempt row per attempt with
\* the ordinals 1..k in order, and a file archived at its first attempt ends
\* SUCCESS with attempt_count = 1.
C21_EveryAttemptRecorded ==
    \A f \in Files :
        PipelineEnded(f) =>
            /\ AuditOf(f).attempt_count = attempt[f]
            /\ Len(AuditOf(f).attempts) = attempt[f]
            /\ \A k \in 1..attempt[f] : AuditOf(f).attempts[k].attempt_number = k
            /\ (attempt[f] = 1 /\ ret[f].success /\ where[f] = "archive") =>
                   /\ AuditOf(f).current_status = "SUCCESS"
                   /\ AuditOf(f).attempt_count = 1

\* A pipeline has ended in SUCCESS at its second attempt, after one failure.
C21_Witness ==
    \E f \in Files :
        /\ PipelineEnded(f)
        /\ attempt[f] = 2
        /\ AuditOf(f).current_status = "SUCCESS"
        /\ AuditOf(f).attempt_count = 2

\* C22: every write to the catalog is performed while its thread holds db_lock,
\* so no two catalog writes of different threads overlap.
C22_WritesHoldDbLock ==
    /\ \A f \in Files : writing[f] => db_lock = f
    /\ \A f \in Files, g \in Files : (writing[f] /\ writing[g]) => f = g

\* C23: process_batch returns only after every file of the batch has finished
\* its pipeline, at most MAX_WORKERS files are in flight at any time, a batch
\* starts with no worker of an earlier batch in flight, and no worker is in
\* flight while the reconciler runs.
C23_BatchesAreSerial ==
    /\ [](running <= MAX_WORKERS)
    /\ [](orch_pc # "batch" => (queued = 0 /\ running = 0))
    /\ [][ (orch_pc = "batch" /\ orch_pc' # "batch") => (queued = 0 /\ running = 0) ]_vars
    /\ [][ (orch_pc' = "batch" /\ orch_pc # "batch") =>
              (running = 0 /\ queued' <= BATCH_SIZE) ]_vars

\* In the second batch of a scan the executor is full and work is still queued.
C23_Witness ==
    /\ batch_num = 2
    /\ orch_pc = "batch"
    /\ running = MAX_WORKERS
    /\ queued > 0

\* C24: in every reachable state every cached hash and every cached key belongs
\* to a Document row of the catalog; after the load at startup the caches grow
\* only in the successful tail of an attempt, after the file has been moved,
\* and the row of a cached key is never deleted.
C24_CachesWithinCatalog ==
    /\ [](/\ processed_hashes \subseteq LoadedHashes
          /\ processed_keys \subseteq LoadedKeys)
    /\ [][ \/ crashes' # crashes
           \/ /\ processed_hashes' = processed_hashes
              /\ processed_keys' = processed_keys
           \/ \E f \in Files :
                 /\ pc[f] = "finish"
                 /\ where[f] = "archive"
                 /\ DestinationPath(f) \in archive
                 /\ processed_hashes' = processed_hashes \cup {calculate_file_hash(f)}
                 /\ processed_keys' = processed_keys \cup {content[f].key} ]_vars
    /\ [][ crashes' # crashes =>
              /\ processed_hashes' = { r.hash_arquivo : r \in nota_fiscal }
              /\ processed_keys' = { r.chave_acesso : r \in nota_fiscal } ]_vars
    /\ [][ \A r \in nota_fiscal \ nota_fiscal' :
              /\ r.chave_acesso \notin processed_keys
              /\ r.hash_arquivo \notin processed_hashes ]_vars

\* After a restart the caches hold the key of a committed row, and another
\* file's rollback has deleted its own row since.
C24_Witness ==
    /\ crashes = 1
    /\ processed_keys # {}
    /\ \E i \in 1..Len(faults) : faults[i][1] \in {"move", "copy"}
    /\ \E f \in Files : pc[f] = "record" /\ ret[f].error_type = "FILE_PERMISSION_ERROR"

\* C28: there is exactly one ProcessingAudit row per discovered file over its
\* whole journey, also when the reconciler or a later scan of the inbox picks
\* the file up again.
C28_OneAuditRowPerFile ==
    \A f \in Files : Cardinality(AuditRowsOf(f)) <= 1

\* The path the layout rule gives: the directories from the parsed fields and,
\* as last component, the name the file had in the inbox.
LayoutPath(f) == [dir |-> content[f].key, name |-> << f, 0 >>]

\* C29: a successfully processed file ends at exactly
\* <ARCHIVE_ROOT>/<ISSUER_NAME> - <TAX_ID>/<KIND>/<YYYY>/<MM-YYYY>/<DD>/<name>,
\* where <name> is the name the file had in the inbox, and its Document row
\* stores that same path.
C29_ArchivedUnderOriginalName ==
    \A f \in Files :
        where[f] = "archive" =>
            /\ LayoutPath(f) \in archive
            /\ \E r \in nota_fiscal :
                  /\ r.chave_acesso = content[f].key
                  /\ r.caminho_arquivo = LayoutPath(f)

\* C27: a Document row is never modified after insertion, and a row is deleted
\* only by the rollback of the very attempt that inserted it, after that
\* attempt's move failed; no attempt, duplicate path or reconciliation run
\* deletes or changes a row inserted by another attempt.
C27_RowsAreImmutable ==
    [][ /\ (nota_fiscal \ nota_fiscal' # {}) =>
              /\ nota_fiscal' \subseteq nota_fiscal
              /\ \E f \in Files :
                    /\ pc[f] = "rollback"
                    /\ pc'[f] = "record"
                    /\ AuditOf(f).current_status = "DB_INSERTED"
                    /\ where[f] = "quarantine"
                    /\ nota_fiscal \ nota_fiscal' = {NewDocument(f)}
        /\ (nota_fiscal' \ nota_fiscal # {}) =>
              /\ nota_fiscal \subseteq nota_fiscal'
              /\ \E f \in Files :
                    /\ pc[f] = "insert"
                    /\ nota_fiscal' \ nota_fiscal = {NewDocument(f)}
                    /\ \A r \in nota_fiscal :
                          /\ r.chave_acesso # content[f].key
                          /\ r.hash_arquivo # calculate_file_hash(f)
      ]_vars

\* A rollback has deleted the row of its own attempt and left the row of
\* another file in the catalog.
C27_Witness ==
    \E f \in Files :
        /\ pc[f] = "record"
        /\ ret[f].error_type = "FILE_PERMISSION_ERROR"
        /\ NewDocument(f) \notin nota_fiscal
        /\ \E g \in Files \ {f} : NewDocument(g) \in nota_fiscal

\* The outcome of a feed that has been processed to the end without an induced
\* failure: per access key one file SUCCESS, archived, with the key's one
\* Document row, every other file of the key DUPLICATE and removed; a file that
\* does not parse FAILED_PERMANENT in the dead-letter directory.
FeedOutcome ==
    /\ \A f \in Files :
          IF content[f].valid
             THEN LET S == FilesWithKey(content[f].key) IN
                  /\ Cardinality({ g \in S : AuditOf(g).current_status = "SUCCESS" }) = 1
                  /\ \/ /\ AuditOf(f).current_status = "SUCCESS"
                        /\ where[f] = "archive"
                        /\ RowsWithKey(content[f].key) = {NewDocument(f)}
                        /\ ArchiveFilesWithKey(content[f].key) = {DestinationPath(f)}
                     \/ /\ AuditOf(f).current_status = "DUPLICATE"
                        /\ where[f] = "deleted"
                        /\ ArchiveFilesOf(f) = {}
             ELSE /\ AuditOf(f).current_status = "FAILED_PERMANENT"
                  /\ where[f] = "dead_letter"
    /\ Cardinality(nota_fiscal) =
          Cardinality({ content[f].key : f \in { g \in Files : content[g].valid } })
    /\ Cardinality(archive) = Cardinality(nota_fiscal)

\* C25: the idempotency caches are only a shortcut: a feed processed to the end
\* gives the same Document rows, archive files and terminal status per file
\* with the caches populated and with every lookup missing; a file fed after
\* the SUCCESS of its key ends DUPLICATE either way, and whenever a lookup would
\* hit, the catalog itself refuses the insert.
C25_CachesAreAShortcut ==
    /\ (faults = << >> /\ Done(Files)) => FeedOutcome
    /\ \A f \in Files :
          (faults = << >> /\ FedAfterSuccess(f) /\ pc[f] = "idle" /\ gen[f] >= 1) =>
              /\ AuditOf(f).current_status = "DUPLICATE"
              /\ where[f] = "deleted"
    /\ \A f \in Files :
          (pc[f] \in {"hash", "parse", "insert"} /\
             (calculate_file_hash(f) \in processed_hashes \/
              (content[f].valid /\ content[f].key \in processed_keys))) =>
              IntegrityError(NewDocument(f))

\* With every lookup missing, a file whose key is in the cache has been through
\* the parse and the insert, was refused by the table and ended DUPLICATE.
C25_Witness ==
    \E f \in Files :
        /\ caches_off
        /\ faults = << >>
        /\ Done(Files)
        /\ FedAfterSuccess(f)
        /\ content[f].key \in processed_keys
        /\ AuditOf(f).chave_acesso = content[f].key
        /\ AuditOf(f).current_status = "DUPLICATE"
        /\ where[f] = "deleted"

\* Every file of the set has left the inbox and its pipeline has returned.
Processed(S) == \A f \in S : where[f] # "inbox" /\ pc[f] = "idle"

\* What processing does to the files and the catalog when nothing but the
\* audit fails: per access key one file archived with the key's one Document
\* row, every other file of the key removed, an unparseable file dead-lettered.
ProcessedAsUsual(f) ==
    IF content[f].valid
       THEN LET S == FilesWithKey(content[f].key) IN
            Processed(S) =>
               /\ Cardinality({ g \in S : where[g] = "archive" }) = 1
               /\ \A g \in S : where[g] \in {"archive", "deleted"}
               /\ \A g \in S : where[g] = "archive" =>
                     /\ RowsWithKey(content[f].key) = {NewDocument(g)}
                     /\ ArchiveFilesWithKey(content[f].key) = {DestinationPath(g)}
       ELSE Processed({f}) => where[f] = "dead_letter"

\* C26: a failure inside an audit operation (create_processing_record,
\* update_processing_status, record_attempt) never reaches the processing path:
\* the pipeline of the file goes on as if the audit call had succeeded, and the
\* files and the catalog end as they do when the audit works.
C26_AuditNeverStopsProcessing ==
    /\ [][ \A f \in Files :
             (pc[f] = "idle" /\ audit_id'[f] # audit_id[f]) =>
                 pc'[f] = "quarantine" ]_vars
    /\ [](\A f \in Files : faults = << >> => ProcessedAsUsual(f))

\* C30: after any sequence of get_or_create_company calls from any workers
\* there is at most one Issuer row per tax ID, every call for a tax ID returns
\* the same issuer id, and when a call returns, the display name in the catalog
\* and the cache entry for its tax ID are equal and are the canonical form of
\* the name that call was given (it is the call that last held cache_lock).
C30_OneIssuerPerTaxId ==
    /\ \A r1 \in empresa, r2 \in empresa : r1.cnpj = r2.cnpj => r1 = r2
    /\ \A e1 \in company_cache, e2 \in company_cache : e1.cnpj = e2.cnpj => e1 = e2
    /\ \A c \in Cnpjs : Cardinality(returned[c]) <= 1
    /\ \A f \in Files :
          gpc[f] = "return" =>
              /\ cache_lock = f
              /\ \E r \in empresa, e \in company_cache :
                    /\ r.cnpj = garg[f].cnpj
                    /\ e.cnpj = garg[f].cnpj
                    /\ e.id = r.id
                    /\ returned[garg[f].cnpj] \subseteq {r.id}
                    /\ r.nome = e.nome
                    /\ r.nome = standardize_company_name(garg[f].nome_xml)

\* A call for a cached tax ID has given a new spelling ("a c" after "ab") and
\* is about to return, with two issuers in the catalog.
C30_Witness ==
    \E f \in Files :
        /\ gpc[f] = "return"
        /\ garg[f].nome_xml = << " ", "a", " ", " ", "c", " " >>
        /\ returned[garg[f].cnpj] # {}
        /\ Cardinality(empresa) = 2
        /\ \E r \in empresa : r.cnpj = garg[f].cnpj /\ r.nome = << "A", " ", "C" >>
        /\ \E g \in Files \ {f} : gpc[g] = "wait" /\ garg[g].cnpj = garg[f].cnpj

\* C31: every read and every update of company_cache made by a worker happens
\* while that worker holds cache_lock: a worker about to run the body of
\* get_or_create_company, or about to read the cache entry for the destination
\* path, is the holder of cache_lock.
C31_CacheAccessUnderLock ==
    \A f \in Files : gpc[f] \in {"body", "read"} => cache_lock = f

\* C39: under any interleaving of workers processing documents of the same tax
\* ID with different spellings of the issuer name, the issuer component of a
\* document's archive path is the canonical form of the name that document
\* carries.
C39_PathHasOwnIssuerName ==
    \A f \in Files :
        nome_final[f] # NoName => IssuerDir(f) = << OwnName(f), garg[f].cnpj >>

\* The pipeline that owns audit row i takes a further turn of its retry loop.
RetryOf(i) ==
    \E f \in Files :
        /\ audit_id[f] = i
        /\ attempt[f] >= 1
        /\ attempt'[f] = attempt[f] + 1

\* The status b may follow the status a of audit row i in this step.
Advances(i, a, b) ==
    CASE b = "QUARANTINED" -> a = "PENDING"
      [] b = "PROCESSING"  -> a = "QUARANTINED" \/ RetryOf(i)
      [] b = "PARSED"      -> a = "PROCESSING"
      [] b = "DB_INSERTED" ->
            /\ a = "PARSED"
            /\ \E f \in Files : audit_id[f] = i /\ NewDocument(f) \in nota_fiscal'
      [] b = "FILE_MOVED"  ->
            /\ a = "DB_INSERTED"
            /\ \E f \in Files :
                  /\ audit_id[f] = i
                  /\ where'[f] = "archive"
                  /\ DestinationPath(f) \in archive'
      [] b = "SUCCESS"     -> a = "FILE_MOVED"
      [] OTHER             -> b \in Terminal

\* C32: within an attempt an audit row advances only along PENDING,
\* QUARANTINED, PROCESSING, PARSED, DB_INSERTED, FILE_MOVED, SUCCESS: SUCCESS
\* follows FILE_MOVED, which follows DB_INSERTED, which follows PARSED, which
\* follows the PROCESSING of the same attempt; DB_INSERTED is set with the
\* Document row committed and FILE_MOVED with the file at its destination; a
\* row goes back only to PROCESSING, on a retry, or jumps to a terminal status;
\* a new row starts PENDING.
C32_StatusAdvancesInOrder ==
    [][ /\ \A i \in 1..Len(processing_audit) :
              LET a == processing_audit[i].current_status
                  b == processing_audit'[i].current_status
              IN  a # b => Advances(i, a, b)
        /\ \A i \in (Len(processing_audit) + 1)..Len(processing_audit') :
              processing_audit'[i].current_status = "PENDING" ]_vars

\* A row went back to PROCESSING after a failed attempt and has advanced to
\* FILE_MOVED in its second attempt.
C32_Witness ==
    \E f \in Files :
        /\ pc[f] = "finish"
        /\ attempt[f] = 2
        /\ AuditOf(f).attempt_count = 1
        /\ AuditOf(f).current_status = "FILE_MOVED"

\* C33: move_to_quarantine either succeeds: the file is then at the returned
\* quarantine path and no longer at its source path, and FILE_QUARANTINED is
\* logged; or it fails: no path is returned, the source file stays in place,
\* QUARANTINE_FAILED is logged, the audit row is set to FAILED_PERMANENT and the
\* pipeline returns without a processing attempt.
C33_QuarantineSucceedsOrFails ==
    [][ \A f \in Files :
          (pc[f] = "quarantine" /\ pc'[f] # "quarantine") =>
              \/ /\ pc'[f] = "begin"
                 /\ where'[f] = "quarantine"
                 /\ gen'[f] = gen[f] + 1
                 /\ \A g \in Files \ {f} : QName(g)' # QName(f)'
                 /\ << "FILE_QUARANTINED", f >> \in audit_events'
                 /\ audit_events' \ audit_events \subseteq {<< "FILE_QUARANTINED", f >>}
                 /\ AuditOf(f)'.current_status = "QUARANTINED"
              \/ /\ pc'[f] = "idle"
                 /\ where'[f] = where[f]
                 /\ gen'[f] = gen[f]
                 /\ << "QUARANTINE_FAILED", f >> \in audit_events'
                 /\ audit_events' \ audit_events \subseteq {<< "QUARANTINE_FAILED", f >>}
                 /\ AuditOf(f)'.current_status = "FAILED_PERMANENT"
                 /\ attempt'[f] = 0
                 /\ AuditOf(f)'.attempts = << >>
                 /\ AuditOf(f)'.attempt_count = 0 ]_vars

\* The move into quarantine of a file has failed: the file is still in the
\* inbox, its row is FAILED_PERMANENT and the event is in the audit log.
C33_Witness ==
    \E f \in Files :
        /\ Induced("quarantine", f)
        /\ pc[f] = "idle"
        /\ where[f] = "inbox"
        /\ AuditOf(f).current_status = "FAILED_PERMANENT"
        /\ << "QUARANTINE_FAILED", f >> \in audit_events
        /\ \E g \in Files \ {f} : << "FILE_QUARANTINED", g >> \in audit_events

\* C34: two files quarantined under the same original filename (the name
\* reappearing in the inbox, or the same name from two inbox subdirectories in
\* the hands of concurrent workers) get distinct quarantine paths, so a move
\* into quarantine never replaces a file that is already there.
C34_QuarantinePathsDistinct ==
    /\ \A f \in Files, g \in Files :
          (f # g /\ qpc[f] = "moved" /\ qpc[g] = "moved" /\ src_name[f] = src_name[g]) =>
              QuarantinePath(f) # QuarantinePath(g)
    /\ \A f \in Files :
          qpc[f] = "moved" => [path |-> QuarantinePath(f), file |-> f] \in qdir

\* The worker of f is past get_or_create_company (line 683) in this attempt.
PastCompany(f) == pc[f] \in {"insert", "move", "rollback", "finish"}

\* C35: when the document lacks a required field (access key, issuer tax ID,
\* issuer name, emission date) the attempt is a parse failure of kind
\* XML_INVALID_STRUCTURE: no Document row is inserted for the file, the attempt
\* does not reach the issuer table, and the file is retried while the budget
\* lasts and dead-lettered after it.
C35_MissingFieldIsParseFailure ==
    /\ [](\A f \in Files :
             content[f].lacks \in RequiredFields =>
                 /\ \A r \in nota_fiscal : r.hash_arquivo # calculate_file_hash(f)
                 /\ ~PastCompany(f)
                 /\ pc[f] = "record" => ret[f] = Ret(FALSE, "XML_INVALID_STRUCTURE"))
    /\ [][ \A f \in Files :
             (content[f].lacks \in RequiredFields /\ pc[f] = "record" /\ pc'[f] # "record") =>
                 pc'[f] = IF attempt[f] < MAX_RETRY_ATTEMPTS THEN "sleep" ELSE "dead" ]_vars

\* The orchestrator has been interrupted.
Stopping == orch_pc \in {"draining", "stopped", "killed"}

\* main() has returned or ended.
Exited == orch_pc \in {"stopped", "killed"}

\* C36: on an interrupt signal the orchestrator lets every file of the
\* in-flight batch finish its pipeline, starts no further batch or scan, logs
\* SYSTEM_STOPPED and exits.
C36_GracefulShutdown ==
    /\ [](Exited => (queued = 0 /\ running = 0))
    /\ [](Exited => << "SYSTEM_STOPPED", 0 >> \in audit_events)
    /\ [][ Stopping => (Stopping' /\ batch_num' = batch_num /\ scan_left' = scan_left) ]_vars
    /\ [][ (orch_pc = "draining" /\ orch_pc' # "draining") =>
              (Exited' /\ queued = 0 /\ running = 0) ]_vars

\* The last invocation of process_single_file_with_retry for f has quarantined
\* the file, gone through its retry loop and returned.
ReturnedAfterQuarantine(f) == PipelineEnded(f) /\ attempt[f] >= 1

\* C37: every invocation of process_single_file_with_retry that has
\* quarantined its file makes at most MAX_RETRY_ATTEMPTS attempts, and when it
\* has returned the audit row of the file is in a terminal status (SUCCESS,
\* DUPLICATE or FAILED_PERMANENT) and the file is no longer in quarantine.
C37_ReturnsTerminal ==
    \A f \in Files :
        /\ attempt[f] <= MAX_RETRY_ATTEMPTS
        /\ ReturnedAfterQuarantine(f) =>
              /\ AuditOf(f).current_status \in Terminal
              /\ where[f] # "quarantine"

\* C38: in every reachable state, between two attempts of the same file
\* included, an audit row whose current status is DB_INSERTED or FILE_MOVED has
\* a Document row with its access key in the catalog.
C38_InsertedStatusHasRow ==
    \A i \in 1..Len(processing_audit) :
        processing_audit[i].current_status \in {"DB_INSERTED", "FILE_MOVED"} =>
            RowsWithKey(processing_audit[i].chave_acesso) # {}

\* Worker f stands at "with db_lock:" without the lock.
WaitsForDbLock(f) ==
    \/ gpc[f] = "dbwait"
    \/ /\ wsite[f] \notin {"company", "done"}
       /\ UnderDbLock(wsite[f])
       /\ ~writing[f]

\* Worker f stands at "with cache_lock:" without the lock.
WaitsForCacheLock(f) == gpc[f] = "wait"

\* Worker f is inside no with block.
OutsideWith(f) == gpc[f] \in {"out", "wait"} /\ ~writing[f]

\* C40: workers never deadlock on the two locks: the only lock acquired while
\* holding cache_lock is db_lock, cache_lock is never requested while holding
\* db_lock, no thread asks for a lock it holds, every lock is released on
\* every path out of its with block (exceptions included); while a worker has
\* work left some worker can take a step, and under fair scheduling every
\* worker waiting for a lock eventually gets it.
C40_NoDeadlockOnLocks ==
    /\ [](\A f \in Files :
             /\ WaitsForCacheLock(f) => (db_lock # f /\ cache_lock # f)
             /\ WaitsForDbLock(f) => db_lock # f
             /\ OutsideWith(f) => (db_lock # f /\ cache_lock # f)
             /\ (db_lock = f /\ cache_lock = f) => gpc[f] = "db")
    /\ []((\E f \in Files : wsite[f] # "done") => ENABLED NextLocks)
    /\ \A f \in Files :
          /\ WaitsForCacheLock(f) ~> (cache_lock = f)
          /\ WaitsForDbLock(f) ~> (db_lock = f)

\* A worker holds cache_lock and waits for db_lock, which another worker holds
\* for an audit write.
C40_Witness ==
    \E f \in Files, g \in Files :
        /\ f # g
        /\ cache_lock = g
        /\ gpc[g] = "dbwait"
        /\ db_lock = f
        /\ writing[f]

====
